---- MODULE Spec2Model ----
(***************************************************************************)
(* Verification model of the VBAN receive demo:                            *)
(*   - the mirrored ring buffer (main/circular_buffer.c),                  *)
(*   - the receiver lifecycle and its receive thread (main/vban.c),        *)
(*   - the re-chunking callback and the I2S writer (main/main.c).          *)
(*                                                                         *)
(* SpecCB drives the ring buffer API with arbitrary call sequences.        *)
(* SpecRx runs one API caller, the receive threads it creates and the      *)
(* I2S writer concurrently; FairSpecRx adds the scheduler's fairness.      *)
(***************************************************************************)
EXTENDS Integers, Sequences, FiniteSets, TLC

\* ------------------------------------------------------------------------
\* Bounds of the model
\* ------------------------------------------------------------------------
\* largest capacity handed to circular_buffer_init in SpecCB
MaxCap == 3
\* longest data block handed to circular_buffer_write in SpecCB
MaxWrite == 4
\* largest byte count handed to circular_buffer_consume in SpecCB
MaxConsume == 4

\* receive threads created over the life of the instance
\* (xTaskCreatePinnedToCore fails beyond)
MaxTasks == 2
\* datagrams the network delivers in SpecPipe
MaxPackets == 3
\* calls of vban_audio_send on one sender in SpecCodec
MaxSends == 2
\* Scaled-down sizes of the pipeline.  The program uses a chunk of 32 bytes
\* and a maximum payload of 1436 bytes; the model keeps every relation
\* between the sizes (ring capacity = 2 * max payload, queue length =
\* max payload / chunk + 2, packet = header + payload) at small values.
AUDIO_BUFFER_SIZE == 2
VBAN_MAX_PAYLOAD_SIZE == 2

\* byte values stored in buffers and payloads (two values tell order apart)
Bytes == {0, 1}

\* a NULL pointer into the store (valid pointers are offsets 0..2C-1)
NULL == -1
\* the `data` argument of a write: NULL, or a pointer to a block of bytes
NullData == [null |-> TRUE, mem |-> <<>>]
DataPtr(mem) == [null |-> FALSE, mem |-> mem]

\* ------------------------------------------------------------------------
\* circular_buffer.h: result codes
\* ------------------------------------------------------------------------
CB_SUCCESS == 0
CB_ERROR_INVALID_ARG == -1
CB_ERROR_NOT_INITIALIZED == -2
CB_ERROR_BUFFER_FULL == -3
CB_ERROR_ALLOC_FAILED == -4
CB_ERROR_CONSUME_TOO_MUCH == -5

VARIABLES
    cb,         \* the circular_buffer_t object
    call,       \* the last ring buffer call: its arguments and its results
    rx,         \* handle->ctx.receiver: state and receive_task_handle
    sock,       \* the receiver's socket: "bound", "shutdown" or "closed"
    freed,      \* TRUE once vban_receiver_delete has freed the instance
    uaf,        \* TRUE once a thread has touched the freed instance
    task,       \* the receive threads: position and locals of each
    queue,      \* audio_queue: chunk descriptors in flight
    caller,     \* the thread calling the receiver API: position in the call
    api,        \* the last API call that returned, and its result
    pipe        \* SpecPipe: the byte and chunk counts of the pipeline, the writer

cbvars == <<cb, call>>
rxvars == <<rx, sock, freed, uaf, task, queue, caller, api, pipe>>
vars == <<cb, call, rx, sock, freed, uaf, task, queue, caller, api, pipe>>

\* A zero-initialised static circular_buffer_t (main.c: `static circular_buffer_t cb`).
CbZero ==
    [buffer |-> <<>>, capacity |-> 0, head |-> 0, tail |-> 0, count |-> 0,
     is_initialized |-> FALSE]

\* memcpy(dst + off, src + srcoff, len) on a store indexed 0..Len-1.
\* dst is a function on 0..N-1, src a sequence (1-indexed).
Memcpy(dst, off, src, srcoff, len) ==
    [i \in DOMAIN dst |->
        IF i >= off /\ i < off + len THEN src[srcoff + (i - off) + 1] ELSE dst[i]]

\* TRUE when memcpy(dst + off, ..., len) stays inside dst.
MemcpyInBounds(dst, off, len) ==
    len = 0 \/ (off \in DOMAIN dst /\ (off + len - 1) \in DOMAIN dst)

circular_buffer_get_count(c) ==
    IF ~c.is_initialized THEN 0 ELSE c.count

circular_buffer_get_capacity(c) ==
    IF ~c.is_initialized THEN 0 ELSE c.capacity

FreeSpaceIgnoresCount(c) ==
    IF ~c.is_initialized THEN 0 ELSE c.capacity

circular_buffer_get_free_space(c) ==
    IF ~c.is_initialized THEN 0 ELSE c.capacity - c.count

IsEmptyWhenInitialized(c) ==
    c.is_initialized /\ c.count = 0

circular_buffer_is_empty(c) ==
    IF ~c.is_initialized THEN TRUE ELSE c.count = 0

IsFullByCursors(c) ==
    c.is_initialized /\ c.head = c.tail

circular_buffer_is_full(c) ==
    IF ~c.is_initialized THEN FALSE ELSE c.count = c.capacity

\* circular_buffer_init on success, `garbage` being what malloc returned.
circular_buffer_init_ok(c, capacity, garbage) ==
    [buffer |-> garbage, capacity |-> capacity, head |-> 0, tail |-> 0,
     count |-> 0, is_initialized |-> TRUE]

circular_buffer_destroy(c) ==
    IF c.is_initialized THEN CbZero ELSE c

\* The two memcpy pairs of circular_buffer_write (primary and mirror).
WriteNoMirror(c, data, bytes) ==
    LET h    == c.head
        len1 == IF c.capacity - h > bytes THEN bytes ELSE c.capacity - h
        rem  == bytes - len1
        b1   == Memcpy(c.buffer, h, data, 0, len1)
    IN  IF rem > 0 THEN Memcpy(b1, 0, data, len1, rem) ELSE b1

WriteCopies(c, data, bytes) ==
    LET h    == c.head
        len1 == IF c.capacity - h > bytes THEN bytes ELSE c.capacity - h
        rem  == bytes - len1
        b1   == Memcpy(c.buffer, h, data, 0, len1)
        b2   == Memcpy(b1, h + c.capacity, data, 0, len1)
        b3   == Memcpy(b2, 0, data, len1, rem)
        b4   == Memcpy(b3, c.capacity, data, len1, rem)
    IN  IF rem > 0 THEN b4 ELSE b2

\* TRUE when every memcpy of circular_buffer_write stays inside the store.
WriteInBounds(c, bytes) ==
    LET h    == c.head
        len1 == IF c.capacity - h > bytes THEN bytes ELSE c.capacity - h
        rem  == bytes - len1
    IN  /\ MemcpyInBounds(c.buffer, h, len1)
        /\ MemcpyInBounds(c.buffer, h + c.capacity, len1)
        /\ rem > 0 => /\ MemcpyInBounds(c.buffer, 0, rem)
                      /\ MemcpyInBounds(c.buffer, c.capacity, rem)

WritePartial(c, data, bytes) ==
    IF ~c.is_initialized THEN [ret |-> CB_ERROR_NOT_INITIALIZED, cb |-> c]
    ELSE IF data.null /\ bytes > 0 THEN [ret |-> CB_ERROR_INVALID_ARG, cb |-> c]
    ELSE IF bytes = 0 THEN [ret |-> CB_SUCCESS, cb |-> c]
    ELSE IF circular_buffer_get_free_space(c) < bytes
         THEN LET fit == circular_buffer_get_free_space(c)
              IN  [ret |-> CB_ERROR_BUFFER_FULL,
                   cb  |-> [c EXCEPT !.buffer = WriteCopies(c, data.mem, fit),
                                     !.head = (c.head + fit) % c.capacity,
                                     !.count = c.count + fit]]
    ELSE [ret |-> CB_SUCCESS,
          cb  |-> [c EXCEPT !.buffer = WriteCopies(c, data.mem, bytes),
                            !.head = (c.head + bytes) % c.capacity,
                            !.count = c.count + bytes]]

\* circular_buffer_write: the result code and the object after the call.
circular_buffer_write(c, data, bytes) ==
    IF ~c.is_initialized THEN [ret |-> CB_ERROR_NOT_INITIALIZED, cb |-> c]
    ELSE IF data.null /\ bytes > 0 THEN [ret |-> CB_ERROR_INVALID_ARG, cb |-> c]
    ELSE IF bytes = 0 THEN [ret |-> CB_SUCCESS, cb |-> c]
    ELSE IF circular_buffer_get_free_space(c) < bytes
         THEN [ret |-> CB_ERROR_BUFFER_FULL, cb |-> c]
    ELSE [ret |-> CB_SUCCESS,
          cb  |-> [c EXCEPT !.buffer = WriteCopies(c, data.mem, bytes),
                            !.head = (c.head + bytes) % c.capacity,
                            !.count = c.count + bytes]]

\* The bytes a pointer `buffer + off` of length len refers to.
BytesAt(c, off, len) ==
    [i \in 1..len |-> c.buffer[off + i - 1]]

RegionAdvancesTail(c) ==
    IF ~c.is_initialized \/ c.count = 0
    THEN [ptr |-> NULL, readable_bytes |-> 0, cb |-> c]
    ELSE [ptr |-> c.tail, readable_bytes |-> c.count,
          cb |-> [c EXCEPT !.tail = (c.tail + c.count) % c.capacity, !.count = 0]]

\* circular_buffer_get_readable_region: the returned pointer (an offset into
\* the store, or NULL), *readable_bytes, and the object after the call.
circular_buffer_get_readable_region(c) ==
    IF ~c.is_initialized THEN [ptr |-> NULL, readable_bytes |-> 0, cb |-> c]
    ELSE IF c.count = 0 THEN [ptr |-> NULL, readable_bytes |-> 0, cb |-> c]
    ELSE [ptr |-> c.tail, readable_bytes |-> c.count, cb |-> c]

ConsumeNoWrap(c, bytes_consumed) ==
    IF ~c.is_initialized THEN [ret |-> CB_ERROR_NOT_INITIALIZED, cb |-> c]
    ELSE IF bytes_consumed = 0 THEN [ret |-> CB_SUCCESS, cb |-> c]
    ELSE IF bytes_consumed > c.count THEN [ret |-> CB_ERROR_CONSUME_TOO_MUCH, cb |-> c]
    ELSE [ret |-> CB_SUCCESS,
          cb  |-> [c EXCEPT !.tail = c.tail + bytes_consumed,
                            !.count = c.count - bytes_consumed]]

ConsumeWholeRegion(c, bytes_consumed) ==
    IF ~c.is_initialized THEN [ret |-> CB_ERROR_NOT_INITIALIZED, cb |-> c]
    ELSE IF bytes_consumed > c.count THEN [ret |-> CB_ERROR_CONSUME_TOO_MUCH, cb |-> c]
    ELSE [ret |-> CB_SUCCESS,
          cb  |-> [c EXCEPT !.tail = (c.tail + c.count) % c.capacity, !.count = 0]]

\* circular_buffer_consume: the result code and the object after the call.
circular_buffer_consume(c, bytes_consumed) ==
    IF ~c.is_initialized THEN [ret |-> CB_ERROR_NOT_INITIALIZED, cb |-> c]
    ELSE IF bytes_consumed = 0 THEN [ret |-> CB_SUCCESS, cb |-> c]
    ELSE IF bytes_consumed > c.count THEN [ret |-> CB_ERROR_CONSUME_TOO_MUCH, cb |-> c]
    ELSE [ret |-> CB_SUCCESS,
          cb  |-> [c EXCEPT !.tail = (c.tail + bytes_consumed) % c.capacity,
                            !.count = c.count - bytes_consumed]]

\* ------------------------------------------------------------------------
\* vban.h / vban.c: constants, header fields, lookup tables
\* ------------------------------------------------------------------------
VBAN_HEADER_SIZE == 28
VBAN_MAX_PACKET_SIZE == VBAN_HEADER_SIZE + VBAN_MAX_PAYLOAD_SIZE
VBAN_STREAM_NAME_MAX_LEN == 16
VBAN_MAGIC_NUMBER == 1313948246
VBAN_SUBPROTOCOL_AUDIO == 0
VBAN_SUBPROTOCOL_SERIAL == 32
VBAN_CODEC_PCM == 0
VBAN_SR_INDEX_MASK == 31
VBAN_SUBPROTOCOL_SHIFT == 5
VBAN_DATATYPE_MASK == 7
VBAN_CODEC_SHIFT == 4
VBAN_SR_705600 == 20
VBAN_SR_MAX_INDEX == 32
VBAN_DATATYPE_INT16 == 1

ESP_OK == 0
ESP_ERR_VBAN_BASE == 458752
ESP_ERR_VBAN_INVALID_ARG == ESP_ERR_VBAN_BASE + 1
ESP_ERR_VBAN_INVALID_HANDLE == ESP_ERR_VBAN_BASE + 4
ESP_ERR_VBAN_SEND_FAIL == ESP_ERR_VBAN_BASE + 5
ESP_ERR_VBAN_TASK_CREATE_FAIL == ESP_ERR_VBAN_BASE + 10
ESP_ERR_VBAN_ALREADY_STARTED == ESP_ERR_VBAN_BASE + 11
ESP_ERR_VBAN_NOT_STARTED == ESP_ERR_VBAN_BASE + 12
ESP_ERR_VBAN_PAYLOAD_TOO_LARGE == ESP_ERR_VBAN_BASE + 14

VBAN_RECEIVER_STATE_IDLE == "IDLE"
VBAN_RECEIVER_STATE_RUNNING == "RUNNING"
VBAN_RECEIVER_STATE_STOPPING == "STOPPING"
ReceiverStates ==
    {VBAN_RECEIVER_STATE_IDLE, VBAN_RECEIVER_STATE_RUNNING, VBAN_RECEIVER_STATE_STOPPING}

\* main.c: the format the sink was opened with, and the queue length
SAMPLE_RATE == 48000
CHANNEL_COUNT == 1
AUDIO_BUFFER_QUEUE_COUNT == (VBAN_MAX_PAYLOAD_SIZE \div AUDIO_BUFFER_SIZE) + 2

\* The array has VBAN_SR_MAX_INDEX entries; those past the 21 initialisers are 0.
VBAN_SAMPLE_RATES_LUT ==
    <<6000, 12000, 24000, 48000, 96000, 192000, 384000, 8000, 16000, 32000, 64000,
      128000, 256000, 512000, 11025, 22050, 44100, 88200, 176400, 352800, 705600,
      0, 0, 0, 0, 0, 0, 0, 0, 0, 0, 0>>

DataTypeSizePacked(data_type) ==
    CASE data_type \in {0} -> 1
      [] data_type \in {1, 6, 7} -> 2
      [] data_type = 2 -> 3
      [] data_type \in {3, 4} -> 4
      [] data_type = 5 -> 8
      [] OTHER -> 0

vban_get_data_type_size(data_type) ==
    CASE data_type = 0 -> 1
      [] data_type = 1 -> 2
      [] data_type = 2 -> 3
      [] data_type = 3 -> 4
      [] data_type = 4 -> 4
      [] data_type = 5 -> 8
      [] OTHER -> 0

vban_get_sr_from_index(sr_idx) ==
    IF sr_idx < VBAN_SR_MAX_INDEX /\ sr_idx <= VBAN_SR_705600
    THEN VBAN_SAMPLE_RATES_LUT[sr_idx + 1]
    ELSE 0

IndexFromSrWholeTable(sample_rate) ==
    LET hit == {i \in 0..(VBAN_SR_MAX_INDEX - 1) : VBAN_SAMPLE_RATES_LUT[i + 1] = sample_rate}
    IN  IF hit = {} THEN VBAN_SR_MAX_INDEX
        ELSE CHOOSE i \in hit : \A j \in hit : i <= j

\* the first i in 0..VBAN_SR_705600 whose table entry is sample_rate
vban_get_index_from_sr(sample_rate) ==
    LET hit == {i \in 0..VBAN_SR_705600 : VBAN_SAMPLE_RATES_LUT[i + 1] = sample_rate}
    IN  IF hit = {} THEN VBAN_SR_MAX_INDEX
        ELSE CHOOSE i \in hit : \A j \in hit : i <= j

\* (sr_idx & 0x1F) | ((sub_protocol_id << 5) & 0xE0)
vban_util_get_sr_subprotocol_byte(sr_idx, sub_protocol_id) ==
    (sr_idx % (VBAN_SR_INDEX_MASK + 1))
      + ((sub_protocol_id % 8) * (2 ^ VBAN_SUBPROTOCOL_SHIFT))

FormatCodecByteSwapped(data_type, codec_id, reserved_bit_val) ==
    (codec_id % 8)
      + (IF reserved_bit_val THEN 8 ELSE 0)
      + ((data_type % 16) * (2 ^ VBAN_CODEC_SHIFT))

\* (data_type & 0x07) | reserved bit | ((codec_id << 4) & 0xF0)
vban_util_get_format_codec_byte(data_type, codec_id, reserved_bit_val) ==
    (data_type % (VBAN_DATATYPE_MASK + 1))
      + (IF reserved_bit_val THEN 8 ELSE 0)
      + ((codec_id % 16) * (2 ^ VBAN_CODEC_SHIFT))

ParseSrSubprotocolSigned(byte_val) ==
    LET signed == IF byte_val % 256 >= 128 THEN (byte_val % 256) - 256 ELSE byte_val % 256
    IN  [sr_idx |-> byte_val % (VBAN_SR_INDEX_MASK + 1),
         sub_protocol_id |-> signed \div (2 ^ VBAN_SUBPROTOCOL_SHIFT)]

\* byte_val & 0x1F and (byte_val & 0xE0) >> 5
vban_util_parse_sr_subprotocol_byte(byte_val) ==
    [sr_idx |-> byte_val % (VBAN_SR_INDEX_MASK + 1),
     sub_protocol_id |-> (byte_val % 256) \div (2 ^ VBAN_SUBPROTOCOL_SHIFT)]

\* byte_val & 0x07, (byte_val & 0x08) != 0 and (byte_val & 0xF0) >> 4
vban_util_parse_format_codec_byte(byte_val) ==
    [data_type |-> byte_val % (VBAN_DATATYPE_MASK + 1),
     reserved_bit |-> ((byte_val \div 8) % 2) = 1,
     codec_id |-> (byte_val % 256) \div (2 ^ VBAN_CODEC_SHIFT)]

StrncmpFirstChar(a, b, n) == a[1] = b[1]

\* strncmp(a, b, n) = 0: the strings agree up to n characters or up to a
\* NUL they share (a, b are sequences of character codes).
StrncmpEqual(a, b, n) ==
    \A i \in 1..n :
        (\A j \in 1..(i - 1) : a[j] = b[j] /\ a[j] # 0) => a[i] = b[i]

\* A name zero-padded to the 16 bytes of a char[VBAN_STREAM_NAME_MAX_LEN].
Name16(str) ==
    [i \in 1..VBAN_STREAM_NAME_MAX_LEN |-> IF i <= Len(str) THEN str[i] ELSE 0]

\* "TestStream1" and "OtherStream" as character codes
VBAN_EXPECTED_STREAM == <<84, 101, 115, 116, 83, 116, 114, 101, 97, 109, 49>>
OtherStreamName == <<79, 116, 104, 101, 114, 83, 116, 114, 101, 97, 109>>

\* receiver_cfg as app_main fills it in (strncpy into a zeroed config).
ReceiverConfig ==
    [expected_stream_name |-> Name16(VBAN_EXPECTED_STREAM), audio_callback |-> TRUE]

\* A received datagram: recvfrom's length and the bytes laid out as
\* vban_header_t followed by the payload.
Dgram(len, magic, srsp, spf, ch, fc, name, ctr, payload) ==
    [len |-> len, vban_magic |-> magic, sr_subprotocol |-> srsp,
     samples_per_frame_m1 |-> spf, channels_m1 |-> ch, format_codec |-> fc,
     stream_name |-> name, frame_counter |-> ctr, payload |-> payload]

\* audio_data_len handed to the callback
AudioDataLen(d) == d.len - VBAN_HEADER_SIZE

\* expected_payload_size: (samples_per_frame_m1 + 1) * (channels_m1 + 1) *
\* vban_get_data_type_size(data_type), in size_t
ExpectedPayloadSize(d) ==
    (d.samples_per_frame_m1 + 1) * (d.channels_m1 + 1)
      * vban_get_data_type_size(vban_util_parse_format_codec_byte(d.format_codec).data_type)

OnSizeMismatchDrop == "mismatch"

\* audio_data_len != expected_payload_size: a warning is logged, the
\* `continue` is commented out
OnSizeMismatch == "dispatch"

ReceiveDropsRestart(d, cfg) ==
    IF d.frame_counter = [hi |-> 0, lo |-> 0] THEN "counter"
    ELSE IF d.vban_magic # VBAN_MAGIC_NUMBER THEN "magic" ELSE "dispatch"

ReceiveSkipsLength(d, cfg) ==
    IF d.vban_magic # VBAN_MAGIC_NUMBER THEN "magic" ELSE "dispatch"

\* What one pass of the receive loop body does with a datagram of len >= 0:
\* the reason it is dropped, or "dispatch" when the callback is invoked.
ReceiveDisposition(d, cfg) ==
    IF d.len < VBAN_HEADER_SIZE THEN "short"
    ELSE IF d.vban_magic # VBAN_MAGIC_NUMBER THEN "magic"
    ELSE IF cfg.expected_stream_name[1] # 0
            /\ ~StrncmpEqual(cfg.expected_stream_name, d.stream_name,
                             VBAN_STREAM_NAME_MAX_LEN) THEN "name"
    ELSE IF vban_util_parse_sr_subprotocol_byte(d.sr_subprotocol).sub_protocol_id
               # (VBAN_SUBPROTOCOL_AUDIO \div (2 ^ VBAN_SUBPROTOCOL_SHIFT)) THEN "subprotocol"
    ELSE IF ~cfg.audio_callback THEN "nocallback"
    ELSE IF vban_util_parse_format_codec_byte(d.format_codec).codec_id
               # (VBAN_CODEC_PCM \div (2 ^ VBAN_CODEC_SHIFT)) THEN "codec"
    ELSE IF AudioDataLen(d) # ExpectedPayloadSize(d) THEN OnSizeMismatch
    ELSE "dispatch"

\* ------------------------------------------------------------------------
\* main.c: vban_receive_callback
\* ------------------------------------------------------------------------
CallbackAcceptsAnyChannels(header) ==
    /\ vban_get_sr_from_index(header.sr_subprotocol % (VBAN_SR_INDEX_MASK + 1)) = SAMPLE_RATE
    /\ header.format_codec % (VBAN_DATATYPE_MASK + 1) = VBAN_DATATYPE_INT16

\* The format test at the top of the callback (num_channels is a uint8_t).
CallbackAccepts(header) ==
    LET actual_sr    == vban_get_sr_from_index(header.sr_subprotocol % (VBAN_SR_INDEX_MASK + 1))
        num_channels == (header.channels_m1 + 1) % 256
        data_type    == header.format_codec % (VBAN_DATATYPE_MASK + 1)
    IN  /\ actual_sr = SAMPLE_RATE
        /\ num_channels = CHANNEL_COUNT
        /\ data_type = VBAN_DATATYPE_INT16

\* A uint32_t as two 16-bit halves (TLC's integers are 32-bit signed)
U32(hi, lo) == [hi |-> hi, lo |-> lo]

\* x + 1 in uint32_t: modulo 2^32
U32Inc(x) ==
    IF x.lo + 1 < 65536 THEN U32(x.hi, x.lo + 1)
    ELSE U32((x.hi + 1) % 65536, 0)

\* A chunk descriptor (audio_buffer_t): a pointer into the store and a size.
NoChunk == [buffer |-> NULL, size |-> 0]

\* The head of the chunking loop: where the callback goes next with the ring
\* buffer c, and the descriptor it is about to push.
ChunkLoopStrict(c) ==
    IF circular_buffer_get_count(c) > AUDIO_BUFFER_SIZE
    THEN LET r == circular_buffer_get_readable_region(c)
         IN  [pc |-> "push", chunk |-> [buffer |-> r.ptr, size |-> AUDIO_BUFFER_SIZE]]
    ELSE [pc |-> "loop", chunk |-> NoChunk]

ChunkLoop(c) ==
    IF circular_buffer_get_count(c) >= AUDIO_BUFFER_SIZE
    THEN LET r == circular_buffer_get_readable_region(c)
         IN  IF r.ptr = NULL THEN [pc |-> "loop", chunk |-> NoChunk]
             ELSE IF r.readable_bytes < AUDIO_BUFFER_SIZE THEN [pc |-> "loop", chunk |-> NoChunk]
             ELSE [pc |-> "push", chunk |-> [buffer |-> r.ptr, size |-> AUDIO_BUFFER_SIZE]]
    ELSE [pc |-> "loop", chunk |-> NoChunk]

\* ------------------------------------------------------------------------
\* Datagrams the network delivers in SpecRx
\* ------------------------------------------------------------------------
PayloadPattern(n) == [i \in 1..n |-> i % 2]

\* mono, INT16, 48000 Hz, audio/PCM, stream "TestStream1", n payload bytes
ValidDgram(n) ==
    Dgram(VBAN_HEADER_SIZE + n, VBAN_MAGIC_NUMBER, 3, 0, 0, 1,
          Name16(VBAN_EXPECTED_STREAM), 0, PayloadPattern(n))

RxDatagrams ==
    {ValidDgram(VBAN_MAX_PAYLOAD_SIZE)} \cup
    { Dgram(VBAN_HEADER_SIZE - 1, VBAN_MAGIC_NUMBER, 3, 0, 0, 1,
            Name16(VBAN_EXPECTED_STREAM), 0, <<>>),
      Dgram(VBAN_HEADER_SIZE + 1, 0, 3, 0, 0, 1,
            Name16(VBAN_EXPECTED_STREAM), 0, PayloadPattern(1)),
      Dgram(VBAN_HEADER_SIZE + 1, VBAN_MAGIC_NUMBER, 3, 0, 0, 1,
            Name16(OtherStreamName), 0, PayloadPattern(1)),
      Dgram(VBAN_HEADER_SIZE + 1, VBAN_MAGIC_NUMBER, VBAN_SUBPROTOCOL_SERIAL + 3, 0, 0, 1,
            Name16(VBAN_EXPECTED_STREAM), 0, PayloadPattern(1)),
      Dgram(VBAN_HEADER_SIZE + 1, VBAN_MAGIC_NUMBER, 3, 0, 0, 16 + 1,
            Name16(VBAN_EXPECTED_STREAM), 0, PayloadPattern(1)),
      Dgram(VBAN_HEADER_SIZE + 1, VBAN_MAGIC_NUMBER, 16, 0, 0, 1,
            Name16(VBAN_EXPECTED_STREAM), 0, PayloadPattern(1)) }

NoTask == 0
Tasks == 1..MaxTasks

NoApi == [fn |-> "none", ret |-> ESP_OK]

\* positions of a receive thread inside its `while` loop (callback included)
LoopPcs == {"loop", "recv", "push"}
\* positions of a receive thread that exists and has not finished
AlivePcs == LoopPcs \cup {"entry", "exit1", "exit2", "undefined"}
\* positions whose next step reads or writes the instance
InstancePcs == {"entry", "loop", "recv", "exit1", "exit2"}

\* nothing received yet; the writer waits in xQueueReceive
\* held and cur remember, for each chunk in the queue and for the chunk the
\* writer holds, its number and the bytes it had when it was enqueued;
\* entry_count, len and chunks describe the callback in progress or last
\* returned; rx_counter is the frame counter of the last datagram and
\* irregular tells that some datagram did not continue the count of the one
\* before it; wanted and offered count the callbacks and payload bytes the
\* datagrams received so far call for, callbacks the callbacks made
NoHeld == [seq |-> -1, bytes |-> <<>>]

PipeIdle ==
    [packets |-> 0, accepted |-> 0, pushed |-> 0, popped |-> 0,
     writer |-> "pop", audio_buf |-> NoChunk, rendered |-> <<>>,
     held |-> <<>>, cur |-> NoHeld,
     write_ret |-> CB_SUCCESS, entry_count |-> 0, len |-> 0, chunks |-> 0,
     rx_counter |-> [hi |-> 0, lo |-> 0], irregular |-> FALSE,
     wanted |-> 0, offered |-> 0, callbacks |-> 0]

\* vban_receiver_create has returned, app_main has initialised the ring
\* buffer, created the queue and started i2s_writer.
RxIdle ==
    /\ rx = [state |-> VBAN_RECEIVER_STATE_IDLE, receive_task_handle |-> NoTask]
    /\ sock = "bound"
    /\ freed = FALSE
    /\ uaf = FALSE
    /\ task = [t \in Tasks |-> [pc |-> "none", chunk |-> NoChunk]]
    /\ queue = <<>>
    /\ caller = [pc |-> "idle", fn |-> "none"]
    /\ api = NoApi
    /\ pipe = PipeIdle

\* ------------------------------------------------------------------------
\* SpecCB: arbitrary calls on one ring buffer object
\* ------------------------------------------------------------------------
NoCall == [op |-> "none"]

InitCB ==
    /\ cb = CbZero
    /\ call = NoCall
    /\ RxIdle

\* circular_buffer_init(&cb, capacity); malloc may fail, and what it returns
\* is uninitialised memory.
CallInit ==
    /\ ~cb.is_initialized
    /\ \E capacity \in 0..MaxCap :
        \/ /\ capacity = 0
           /\ cb' = cb
           /\ call' = [op |-> "init", capacity |-> capacity, ret |-> CB_ERROR_INVALID_ARG]
        \/ /\ capacity > 0
           /\ cb' = [cb EXCEPT !.is_initialized = FALSE]
           /\ call' = [op |-> "init", capacity |-> capacity, ret |-> CB_ERROR_ALLOC_FAILED]
        \/ /\ capacity > 0
           /\ \E garbage \in [0..(2 * capacity - 1) -> Bytes] :
                cb' = circular_buffer_init_ok(cb, capacity, garbage)
           /\ call' = [op |-> "init", capacity |-> capacity, ret |-> CB_SUCCESS]

CallDestroy ==
    /\ cb' = circular_buffer_destroy(cb)
    /\ call' = [op |-> "destroy"]

CallWrite ==
    \E bytes \in 0..MaxWrite :
      \E data \in {DataPtr(m) : m \in [1..bytes -> Bytes]} \cup {NullData} :
        LET r == circular_buffer_write(cb, data, bytes)
        IN  /\ cb' = r.cb
            /\ call' = [op |-> "write", data |-> data, bytes |-> bytes, ret |-> r.ret,
                        in_bounds |-> (r.ret = CB_SUCCESS /\ bytes > 0)
                                         => WriteInBounds(cb, bytes)]

CallConsume ==
    \E n \in 0..MaxConsume :
        LET r == circular_buffer_consume(cb, n)
        IN  /\ cb' = r.cb
            /\ call' = [op |-> "consume", bytes |-> n, ret |-> r.ret]

CallRegion ==
    LET r == circular_buffer_get_readable_region(cb)
    IN  /\ cb' = r.cb
        /\ call' = [op |-> "region", ptr |-> r.ptr, readable_bytes |-> r.readable_bytes]

\* get_count, get_capacity, get_free_space, is_empty, is_full
CallObserve ==
    /\ cb' = cb
    /\ call' = [op |-> "observe",
                count |-> circular_buffer_get_count(cb),
                capacity |-> circular_buffer_get_capacity(cb),
                free_space |-> circular_buffer_get_free_space(cb),
                is_empty |-> circular_buffer_is_empty(cb),
                is_full |-> circular_buffer_is_full(cb)]

CallStep ==
    \/ CallInit
    \/ CallDestroy
    \/ CallWrite
    \/ CallConsume
    \/ CallRegion
    \/ CallObserve

NextCB == CallStep /\ UNCHANGED rxvars

SpecCB == InitCB /\ [][NextCB]_vars

\* ------------------------------------------------------------------------
\* SpecRx: the receiver lifecycle.  One thread calls vban_receiver_start,
\* vban_receiver_stop and vban_receiver_delete one after the other; the
\* receive threads it creates and the I2S writer run concurrently with it.
\* A step is one access to the shared instance (a guard, a write, a socket
\* call) together with the thread-local code that follows it.
\* ------------------------------------------------------------------------
InitRx ==
    /\ cb = circular_buffer_init_ok(CbZero, VBAN_MAX_PAYLOAD_SIZE * 2,
                                    [i \in 0..(4 * VBAN_MAX_PAYLOAD_SIZE - 1) |-> 0])
    /\ call = NoCall
    /\ RxIdle

SetPc(t, pc) == [task EXCEPT ![t] = [pc |-> pc, chunk |-> NoChunk]]

\* --- the receive thread (vban_receive_task) ---

\* handle->type check, then state = RUNNING
TaskEntry(t) ==
    /\ task[t].pc = "entry" /\ ~freed
    /\ rx' = [rx EXCEPT !.state = VBAN_RECEIVER_STATE_RUNNING]
    /\ task' = SetPc(t, "loop")
    /\ UNCHANGED <<cb, call, sock, freed, uaf, queue, caller, api, pipe>>

LoopContinuesWhenIdle(state) == state = VBAN_RECEIVER_STATE_IDLE

\* the `while` condition
LoopContinues(state) == state = VBAN_RECEIVER_STATE_RUNNING

\* while (state == RUNNING): enter recvfrom(handle->sock_fd, ...) or leave
TaskLoopCheck(t) ==
    /\ task[t].pc = "loop" /\ ~freed
    /\ task' = SetPc(t, IF LoopContinues(rx.state) THEN "recv" ELSE "exit1")
    /\ call' = NoCall
    /\ UNCHANGED <<cb, rx, sock, freed, uaf, queue, caller, api, pipe>>

\* a recvfrom has failed, or has returned a datagram that the loop body
\* dropped: kept in `call` until a thread evaluates the `while` condition
\* again or has left the loop
Received(disposition) == [op |-> "recvfrom", disposition |-> disposition]

\* vban_receiver_stop has written state = STOPPING and no API call has
\* begun since it returned
StopSignalled ==
    \/ caller.pc = "stop_shutdown"
    \/ (caller.pc \in {"idle", "del_handle"} /\ api = [fn |-> "stop", ret |-> ESP_OK])

\* recvfrom returns a datagram: validation, dispatch, and the callback up
\* to its first push; pipe.callbacks counts, up to MaxTasks, the callbacks
\* invoked since state = STOPPING was written, until the next API call
TaskRecvDatagram(t) ==
    /\ task[t].pc = "recv" /\ sock = "bound"
    /\ \E d \in RxDatagrams :
        /\ call' = IF ReceiveDisposition(d, ReceiverConfig) = "dispatch"
                   THEN NoCall ELSE Received("dropped")
        /\ pipe' = IF ReceiveDisposition(d, ReceiverConfig) = "dispatch" /\ StopSignalled
                   THEN [pipe EXCEPT !.callbacks = IF @ < MaxTasks THEN @ + 1 ELSE @]
                   ELSE pipe
        /\ IF ReceiveDisposition(d, ReceiverConfig) = "dispatch" /\ CallbackAccepts(d)
           THEN LET r == circular_buffer_write(cb, DataPtr(d.payload), AudioDataLen(d))
                IN  IF r.ret # CB_SUCCESS
                    THEN /\ cb' = cb
                         /\ task' = SetPc(t, "loop")
                    ELSE /\ cb' = r.cb
                         /\ task' = [task EXCEPT ![t] = ChunkLoop(r.cb)]
           ELSE /\ cb' = cb
                /\ task' = SetPc(t, "loop")
    /\ UNCHANGED <<rx, sock, freed, uaf, queue, caller, api>>

\* recvfrom returns 0 on the socket that was shut down: too short, continue
TaskRecvEof(t) ==
    /\ task[t].pc = "recv" /\ sock = "shutdown"
    /\ task' = SetPc(t, "loop")
    /\ call' = Received("dropped")
    /\ UNCHANGED <<cb, rx, sock, freed, uaf, queue, caller, api, pipe>>

\* recvfrom returns < 0 (at any time; at once when the socket was shut down
\* or closed): EWOULDBLOCK/EAGAIN continues; anything else breaks out of the
\* loop if (state != RUNNING) and otherwise logs, delays and continues
TaskRecvFail(t) ==
    /\ task[t].pc = "recv"
    /\ \E again \in BOOLEAN :
        IF again
        THEN /\ task' = SetPc(t, "loop")
             /\ call' = Received("failed")
        ELSE /\ ~freed
             /\ task' = SetPc(t, IF rx.state # VBAN_RECEIVER_STATE_RUNNING
                                 THEN "exit1" ELSE "loop")
             /\ call' = Received("failed")
    /\ UNCHANGED <<cb, rx, sock, freed, uaf, queue, caller, api, pipe>>

\* xQueueSend(audio_queue, &audio_buf, portMAX_DELAY) blocks while the queue
\* is full; then circular_buffer_consume(&cb, AUDIO_BUFFER_SIZE) and the
\* head of the chunking loop again
TaskPush(t) ==
    /\ task[t].pc = "push"
    /\ Len(queue) < AUDIO_BUFFER_QUEUE_COUNT
    /\ queue' = Append(queue, task[t].chunk)
    /\ LET r == circular_buffer_consume(cb, AUDIO_BUFFER_SIZE)
       IN  IF r.ret # CB_SUCCESS
           THEN /\ cb' = cb
                /\ task' = SetPc(t, "loop")
           ELSE /\ cb' = r.cb
                /\ task' = [task EXCEPT ![t] = ChunkLoop(r.cb)]
    /\ UNCHANGED <<call, rx, sock, freed, uaf, caller, api, pipe>>

\* receive_task_handle = NULL
TaskExit1(t) ==
    /\ task[t].pc = "exit1" /\ ~freed
    /\ rx' = [rx EXCEPT !.receive_task_handle = NoTask]
    /\ task' = SetPc(t, "exit2")
    /\ call' = NoCall
    /\ UNCHANGED <<cb, sock, freed, uaf, queue, caller, api, pipe>>

\* state = IDLE; vTaskDelete(NULL)
TaskExit2(t) ==
    /\ task[t].pc = "exit2" /\ ~freed
    /\ rx' = [rx EXCEPT !.state = VBAN_RECEIVER_STATE_IDLE]
    /\ task' = SetPc(t, "dead")
    /\ UNCHANGED <<cb, call, sock, freed, uaf, queue, caller, api, pipe>>

\* the thread reads or writes the instance after free(handle): undefined
TaskUseAfterFree(t) ==
    /\ task[t].pc \in InstancePcs /\ freed
    /\ uaf' = TRUE
    /\ task' = SetPc(t, "undefined")
    /\ call' = NoCall
    /\ UNCHANGED <<cb, rx, sock, freed, queue, caller, api, pipe>>

TaskStep(t) ==
    \/ TaskEntry(t)
    \/ TaskLoopCheck(t)
    \/ TaskRecvDatagram(t)
    \/ TaskRecvEof(t)
    \/ TaskRecvFail(t)
    \/ TaskPush(t)
    \/ TaskExit1(t)
    \/ TaskExit2(t)
    \/ TaskUseAfterFree(t)

\* --- the consumer (i2s_writer) ---

\* one turn of the writer's loop: xQueueReceive(audio_queue, &audio_buf,
\* portMAX_DELAY), then i2s_channel_write of the chunk
WriterStep ==
    /\ queue # <<>>
    /\ queue' = Tail(queue)
    /\ UNCHANGED <<cb, call, rx, sock, freed, uaf, task, caller, api, pipe>>

\* --- the API caller ---

Goto(pc) == [caller EXCEPT !.pc = pc]

\* the caller is back from `fn` with `ret`: inside vban_receiver_delete the
\* call of vban_receiver_stop returns into delete
Return(fn, ret) ==
    /\ api' = [fn |-> fn, ret |-> ret]
    /\ caller' = IF fn = "stop" /\ caller.fn = "delete"
                 THEN [caller EXCEPT !.pc = "del_handle"]
                 ELSE [pc |-> "idle", fn |-> "none"]

StartBusyOnlyRunning(state, handle) ==
    state = VBAN_RECEIVER_STATE_RUNNING \/ handle # NoTask

\* the guard of vban_receiver_start
StartBusy(state, handle) ==
    state # VBAN_RECEIVER_STATE_IDLE \/ handle # NoTask

\* vban_receiver_start is called: ESP_ERR_VBAN_ALREADY_STARTED unless the
\* receiver is Idle with no task handle
StartCheck ==
    /\ caller.pc = "idle"
    /\ IF StartBusy(rx.state, rx.receive_task_handle)
       THEN Return("start", ESP_ERR_VBAN_ALREADY_STARTED)
       ELSE caller' = [pc |-> "start_create", fn |-> "start"] /\ api' = NoApi
    /\ pipe' = [pipe EXCEPT !.callbacks = 0]
    /\ UNCHANGED <<cb, call, rx, sock, freed, uaf, task, queue>>

\* xTaskCreatePinnedToCore succeeds: the handle is stored and the thread
\* exists; vTaskDelay(10 ms); return ESP_OK
StartCreate ==
    /\ caller.pc = "start_create"
    /\ \E t \in Tasks :
        /\ task[t].pc = "none"
        /\ \A u \in Tasks : u < t => task[u].pc # "none"
        /\ task' = SetPc(t, "entry")
        /\ rx' = [rx EXCEPT !.receive_task_handle = t]
    /\ Return("start", ESP_OK)
    /\ UNCHANGED <<cb, call, sock, freed, uaf, queue, pipe>>

\* xTaskCreatePinnedToCore fails: handle = NULL, ESP_ERR_VBAN_TASK_CREATE_FAIL
StartCreateFail ==
    /\ caller.pc = "start_create"
    /\ rx' = [rx EXCEPT !.receive_task_handle = NoTask]
    /\ Return("start", ESP_ERR_VBAN_TASK_CREATE_FAIL)
    /\ UNCHANGED <<cb, call, sock, freed, uaf, task, queue, pipe>>

StopOnlyStopping(state, handle) ==
    state = VBAN_RECEIVER_STATE_STOPPING

\* the guard of vban_receiver_stop
StopNotRunning(state, handle) ==
    state # VBAN_RECEIVER_STATE_RUNNING \/ handle = NoTask

\* vban_receiver_stop is called, by the application or as the first
\* statement of vban_receiver_delete
StopCheck ==
    /\ caller.pc = "idle"
    /\ \E fn \in {"stop", "delete"} :
        caller' = [pc |-> IF StopNotRunning(rx.state, rx.receive_task_handle)
                          THEN "stop_ns" ELSE "stop_set",
                   fn |-> fn]
    /\ api' = NoApi
    /\ pipe' = [pipe EXCEPT !.callbacks = 0]
    /\ UNCHANGED <<cb, call, rx, sock, freed, uaf, task, queue>>

\* not running: state = IDLE; receive_task_handle = NULL;
\* return ESP_ERR_VBAN_NOT_STARTED
StopNotStarted ==
    /\ caller.pc = "stop_ns"
    /\ rx' = [state |-> VBAN_RECEIVER_STATE_IDLE, receive_task_handle |-> NoTask]
    /\ Return("stop", ESP_ERR_VBAN_NOT_STARTED)
    /\ UNCHANGED <<cb, call, sock, freed, uaf, task, queue, pipe>>

\* state = STOPPING
StopSetStopping ==
    /\ caller.pc = "stop_set"
    /\ rx' = [rx EXCEPT !.state = VBAN_RECEIVER_STATE_STOPPING]
    /\ caller' = Goto("stop_shutdown")
    /\ pipe' = [pipe EXCEPT !.callbacks = 0]
    /\ UNCHANGED <<cb, call, sock, freed, uaf, task, queue, api>>

\* if (sock_fd >= 0) shutdown(sock_fd, SHUT_RDWR); return ESP_OK
StopShutdown ==
    /\ caller.pc = "stop_shutdown"
    /\ sock' = IF sock # "closed" THEN "shutdown" ELSE sock
    /\ Return("stop", ESP_OK)
    /\ UNCHANGED <<cb, call, rx, freed, uaf, task, queue, pipe>>

\* vban_receiver_delete after its stop: if (receive_task_handle != NULL)
\* vTaskDelay(50 ms)
DeleteCheckHandle ==
    /\ caller.pc = "del_handle"
    /\ \E delayed \in {rx.receive_task_handle # NoTask} :
        caller' = Goto("del_close")
    /\ UNCHANGED <<cb, call, rx, sock, freed, uaf, task, queue, api, pipe>>

\* if (sock_fd >= 0) { close(sock_fd); sock_fd = -1; }
DeleteClose ==
    /\ caller.pc = "del_close"
    /\ sock' = "closed"
    /\ caller' = Goto("del_free")
    /\ UNCHANGED <<cb, call, rx, freed, uaf, task, queue, api, pipe>>

\* free(handle); return ESP_OK.  The handle is gone: no further API call.
DeleteFree ==
    /\ caller.pc = "del_free"
    /\ freed' = TRUE
    /\ api' = [fn |-> "delete", ret |-> ESP_OK]
    /\ caller' = [pc |-> "done", fn |-> "none"]
    /\ UNCHANGED <<cb, call, rx, sock, uaf, task, queue, pipe>>

CallerStep ==
    \/ StartCheck
    \/ StartCreate
    \/ StartCreateFail
    \/ StopCheck
    \/ StopNotStarted
    \/ StopSetStopping
    \/ StopShutdown
    \/ DeleteCheckHandle
    \/ DeleteClose
    \/ DeleteFree

NextRx ==
    \/ CallerStep
    \/ \E t \in Tasks : TaskStep(t)
    \/ WriterStep

SpecRx == InitRx /\ [][NextRx]_vars

\* an API call in progress: straight-line code with bounded delays
CallerInCall == caller.pc # "idle" /\ CallerStep

\* The scheduler runs every ready thread: each receive thread and the
\* writer keep taking steps, a thread blocked in xQueueSend gets the slot a
\* pop frees, and an API call that has begun runs to its return.  Nothing
\* obliges the application to call the API again.
FairSpecRx ==
    /\ SpecRx
    /\ \A t \in Tasks : WF_vars(TaskStep(t)) /\ SF_vars(TaskPush(t))
    /\ WF_vars(WriterStep)
    /\ WF_vars(CallerInCall)

\* ------------------------------------------------------------------------
\* SpecPipe: one receive thread feeding vban_receive_callback, the queue and
\* i2s_writer.  The sizes keep the relations of main.c with a maximum
\* payload that is not a multiple of the chunk size (1436 = 44 * 32 + 28).
\* The bytes of the accepted payloads are numbered by their position in the
\* stream, so the content of a chunk tells which bytes of the stream it is.
\* ------------------------------------------------------------------------
\* VBAN_MAX_PAYLOAD_SIZE in SpecPipe
PipeMaxPayload == 2 * AUDIO_BUFFER_SIZE + 1
PipeCapacityOnePayload == PipeMaxPayload

\* circular_buffer_init(&cb, VBAN_MAX_PAYLOAD_SIZE * 2)
PipeCapacity == PipeMaxPayload * 2
\* AUDIO_BUFFER_QUEUE_COUNT in SpecPipe
PipeQueueCount == (PipeMaxPayload \div AUDIO_BUFFER_SIZE) + 2

\* the n payload bytes that follow `accepted` bytes of the stream
StreamBytes(accepted, n) == [i \in 1..n |-> accepted + i - 1]

\* bytes [size * k, size * k + size) of the stream
StreamChunk(k) == StreamBytes(AUDIO_BUFFER_SIZE * k, AUDIO_BUFFER_SIZE)

\* what the network delivers: packets in the demo's format with 0 to
\* PipeMaxPayload payload bytes, and a packet at 44100 Hz
PipeDatagrams(accepted) ==
    { Dgram(VBAN_HEADER_SIZE + n, VBAN_MAGIC_NUMBER, 3, 0, 0, 1,
            Name16(VBAN_EXPECTED_STREAM), fc, StreamBytes(accepted, n)) :
        n \in 0..PipeMaxPayload,
        fc \in {[hi |-> 0, lo |-> 0], [hi |-> 0, lo |-> 1], [hi |-> 65535, lo |-> 65535]} }
      \cup
    { Dgram(VBAN_HEADER_SIZE + 1, magic, 16, 0, 0, 1,
            Name16(VBAN_EXPECTED_STREAM), [hi |-> 0, lo |-> 0], <<99>>) :
        magic \in {VBAN_MAGIC_NUMBER, 0} }

\* what the datagram d is expected to cause, told from its bytes other than
\* the frame counter: a callback, and payload bytes for the ring buffer
PipeExpect(d) ==
    LET wanted == /\ d.len >= 28
                  /\ d.vban_magic = VBAN_MAGIC_NUMBER
                  /\ d.stream_name = Name16(VBAN_EXPECTED_STREAM)
                  /\ d.sr_subprotocol < 32
                  /\ d.format_codec < 16
        format == d.sr_subprotocol = 3 /\ d.channels_m1 = 0 /\ d.format_codec % 8 = 1
    IN  [callbacks |-> IF wanted THEN 1 ELSE 0,
         bytes |-> IF wanted /\ format THEN d.len - 28 ELSE 0]

\* the receive thread of SpecPipe
Producer == 1

InitPipe ==
    /\ cb = circular_buffer_init_ok(CbZero, PipeCapacity,
                                    [i \in 0..(2 * PipeCapacity - 1) |-> -1])
    /\ call = NoCall
    /\ rx = [state |-> VBAN_RECEIVER_STATE_RUNNING, receive_task_handle |-> Producer]
    /\ sock = "bound"
    /\ freed = FALSE
    /\ uaf = FALSE
    /\ task = [t \in Tasks |-> [pc |-> IF t = Producer THEN "recv" ELSE "none",
                                chunk |-> NoChunk]]
    /\ queue = <<>>
    /\ caller = [pc |-> "idle", fn |-> "none"]
    /\ api = NoApi
    /\ pipe = PipeIdle

\* the producer reaches the head of the chunking loop with the ring buffer c;
\* when the callback returns, the receive loop (state is RUNNING throughout
\* SpecPipe) goes back to recvfrom
PipeLoop(c) ==
    LET l == ChunkLoop(c)
    IN  [task EXCEPT ![Producer] = IF l.pc = "loop" THEN [l EXCEPT !.pc = "recv"] ELSE l]

\* recvfrom returns a datagram: validation, dispatch, and the callback up to
\* its first xQueueSend or its return
PipeReceive ==
    /\ task[Producer].pc = "recv"
    /\ pipe.packets < MaxPackets
    /\ \E d \in PipeDatagrams(pipe.accepted) :
        LET disp == ReceiveDisposition(d, ReceiverConfig)
            seen == [pipe EXCEPT
                        !.packets = @ + 1,
                        !.rx_counter = d.frame_counter,
                        !.irregular = @ \/ ( /\ pipe.packets > 0
                                             /\ d.frame_counter # U32Inc(pipe.rx_counter) ),
                        !.wanted = @ + PipeExpect(d).callbacks,
                        !.offered = @ + PipeExpect(d).bytes,
                        !.callbacks = @ + (IF disp = "dispatch" THEN 1 ELSE 0)]
        IN  IF disp = "dispatch" /\ CallbackAccepts(d)
            THEN LET r == circular_buffer_write(cb, DataPtr(d.payload), AudioDataLen(d))
                 IN  IF r.ret # CB_SUCCESS
                     THEN /\ cb' = cb
                          /\ task' = task
                          /\ pipe' = [seen EXCEPT !.write_ret = r.ret,
                                                  !.entry_count = cb.count,
                                                  !.len = AudioDataLen(d), !.chunks = 0]
                     ELSE /\ cb' = r.cb
                          /\ task' = PipeLoop(r.cb)
                          /\ pipe' = [seen EXCEPT !.write_ret = r.ret,
                                                  !.accepted = @ + AudioDataLen(d),
                                                  !.entry_count = cb.count,
                                                  !.len = AudioDataLen(d), !.chunks = 0]
            ELSE /\ cb' = cb
                 /\ task' = task
                 /\ pipe' = seen
    /\ UNCHANGED <<call, rx, sock, freed, uaf, queue, caller, api>>

\* xQueueSend(audio_queue, &audio_buf, portMAX_DELAY) blocks while the queue
\* holds PipeQueueCount chunks; then circular_buffer_consume and the head of
\* the chunking loop again
PipePush ==
    /\ task[Producer].pc = "push"
    /\ Len(queue) < PipeQueueCount
    /\ queue' = Append(queue, task[Producer].chunk)
    /\ LET r == circular_buffer_consume(cb, AUDIO_BUFFER_SIZE)
           c == task[Producer].chunk
       IN  /\ pipe' = [pipe EXCEPT !.pushed = @ + 1, !.chunks = @ + 1,
                          !.held = Append(@, [seq |-> pipe.pushed,
                                              bytes |-> BytesAt(cb, c.buffer, c.size)])]
           /\ IF r.ret # CB_SUCCESS
              THEN /\ cb' = cb
                   /\ task' = SetPc(Producer, "recv")
              ELSE /\ cb' = r.cb
                   /\ task' = PipeLoop(r.cb)
    /\ UNCHANGED <<call, rx, sock, freed, uaf, caller, api>>

PipePopLast ==
    /\ pipe.writer = "pop"
    /\ queue # <<>>
    /\ queue' = SubSeq(queue, 1, Len(queue) - 1)
    /\ pipe' = [pipe EXCEPT !.writer = "write", !.popped = @ + 1,
                            !.audio_buf = queue[Len(queue)],
                            !.cur = pipe.held[Len(pipe.held)],
                            !.held = SubSeq(@, 1, Len(@) - 1)]
    /\ UNCHANGED <<cb, call, rx, sock, freed, uaf, task, caller, api>>

\* xQueueReceive(audio_queue, &audio_buf, portMAX_DELAY) returns a chunk
PipePop ==
    /\ pipe.writer = "pop"
    /\ queue # <<>>
    /\ queue' = Tail(queue)
    /\ pipe' = [pipe EXCEPT !.writer = "write", !.popped = @ + 1,
                            !.audio_buf = Head(queue),
                            !.cur = Head(pipe.held), !.held = Tail(@)]
    /\ UNCHANGED <<cb, call, rx, sock, freed, uaf, task, caller, api>>

\* i2s_channel_write(tx_handle, audio_buf.buffer, audio_buf.size, ...) reads
\* the bytes the descriptor points to
PipeRender ==
    /\ pipe.writer = "write"
    /\ pipe' = [pipe EXCEPT !.writer = "pop",
                            !.rendered = BytesAt(cb, pipe.audio_buf.buffer,
                                                 pipe.audio_buf.size)]
    /\ UNCHANGED <<cb, call, rx, sock, freed, uaf, task, queue, caller, api>>

NextPipe ==
    \/ PipeReceive
    \/ PipePush
    \/ PipePop
    \/ PipeRender

SpecPipe == InitPipe /\ [][NextPipe]_vars

\* The scheduler runs the writer whenever it is ready, and the sink accepts
\* what i2s_channel_write (portMAX_DELAY) hands it; the producer gets the
\* slot a pop frees.  Nothing obliges the network to deliver a datagram.
FairSpecPipe ==
    /\ SpecPipe
    /\ WF_vars(PipePop)
    /\ WF_vars(PipeRender)
    /\ WF_vars(PipePush)

\* ------------------------------------------------------------------------
\* SpecCodec: the stateless parts of vban.c, each applied once to an input
\* drawn from a bounded set.  `call` holds the input, then the result.
\* ------------------------------------------------------------------------
\* recvfrom's return value: nothing, one byte short of a header, a bare
\* header, a header with payload, a full packet
DecLens ==
    {0, VBAN_HEADER_SIZE - 1, VBAN_HEADER_SIZE, VBAN_HEADER_SIZE + 1, VBAN_MAX_PACKET_SIZE}

DecMagics == {VBAN_MAGIC_NUMBER, VBAN_MAGIC_NUMBER + 1}

\* sr_subprotocol bytes: audio at 48000 and 44100 Hz, audio with an
\* undefined rate index, serial and service sub-protocols
DecSrSubprotocols == {3, 16, 31, VBAN_SUBPROTOCOL_SERIAL + 3, 96 + 3}

\* format_codec bytes: INT16/PCM, INT16/PCM with the reserved bit, INT16 with
\* codec 1, INT12/PCM, UINT8 with codec 15
DecFormatCodecs == {1, 9, 17, 6, 240}

\* "TestStream1" followed by a NUL and then non-zero bytes
NameWithTail ==
    [i \in 1..VBAN_STREAM_NAME_MAX_LEN |->
        IF i <= Len(VBAN_EXPECTED_STREAM) THEN VBAN_EXPECTED_STREAM[i]
        ELSE IF i = Len(VBAN_EXPECTED_STREAM) + 1 THEN 0 ELSE 88]

\* stream_name fields: the expected name, another name, the expected name
\* with bytes after its NUL, with one more character, in lower case, filling
\* all 16 bytes, and the empty name
DecNames ==
    { Name16(VBAN_EXPECTED_STREAM),
      Name16(OtherStreamName),
      NameWithTail,
      Name16(VBAN_EXPECTED_STREAM \o <<88>>),
      Name16(<<116>> \o Tail(VBAN_EXPECTED_STREAM)),
      Name16(VBAN_EXPECTED_STREAM \o <<88, 88, 88, 88, 88>>),
      Name16(<<>>) }

DecSamples == {0, 255}
DecChannels == {0, 1}

\* receiver configurations: the demo's, one accepting any stream, one
\* without a callback
DecConfigs ==
    { ReceiverConfig,
      [expected_stream_name |-> Name16(<<>>), audio_callback |-> TRUE],
      [expected_stream_name |-> Name16(VBAN_EXPECTED_STREAM), audio_callback |-> FALSE] }

\* rx_buffer after recvfrom returned len: 28 + payload bytes were received
\* at most; the header bytes past len are what the buffer held before
DecDatagrams ==
    { Dgram(len, magic, srsp, spf, ch, fc, name, 0,
            PayloadPattern(IF len > VBAN_HEADER_SIZE THEN len - VBAN_HEADER_SIZE ELSE 0)) :
        len \in DecLens, magic \in DecMagics, srsp \in DecSrSubprotocols,
        spf \in DecSamples, ch \in DecChannels, fc \in DecFormatCodecs,
        name \in DecNames }

ReceiveInputs ==
    { [op |-> "recvfrom", d |-> d, cfg |-> cfg] : d \in DecDatagrams, cfg \in DecConfigs }

\* one pass of the receive loop body over the datagram in rx_buffer; every
\* path ends in `continue` or falls to the end of the body
ReceivePass ==
    /\ call.op = "recvfrom"
    /\ LET disp == ReceiveDisposition(call.d, call.cfg)
       IN  call' = [op |-> "receive", d |-> call.d, cfg |-> call.cfg,
                    disposition |-> disp,
                    callbacks |-> IF disp = "dispatch" THEN 1 ELSE 0,
                    audio_data_len |-> IF disp = "dispatch" THEN AudioDataLen(call.d) ELSE 0,
                    next |-> "loop"]
    /\ UNCHANGED <<cb, rx, sock, freed, uaf, task, queue, caller, api, pipe>>

\* sample rate indices handed to vban_get_sr_from_index: the 21 defined
\* ones, the undefined ones, the sentinel and beyond
SrIndices == 0..(2 * VBAN_SR_MAX_INDEX)

\* rates handed to vban_get_index_from_sr: every rate of the table, and
\* rates next to, between and outside them
SrRates ==
    {VBAN_SAMPLE_RATES_LUT[i + 1] : i \in 0..VBAN_SR_705600}
      \cup {0, 1, 5999, 6001, 44000, 47999, 48001, 705599, 705601, 1000000}

SrInputs ==
    {[op |-> "sr_idx", sr_idx |-> i] : i \in SrIndices}
      \cup {[op |-> "sample_rate", sample_rate |-> hz] : hz \in SrRates}

\* vban_get_sr_from_index(sr_idx), and the index of what it returned
SrFromIndex ==
    /\ call.op = "sr_idx"
    /\ LET hz == vban_get_sr_from_index(call.sr_idx)
       IN  call' = [op |-> "vban_get_sr_from_index", sr_idx |-> call.sr_idx,
                    ret |-> hz, back |-> vban_get_index_from_sr(hz)]
    /\ UNCHANGED <<cb, rx, sock, freed, uaf, task, queue, caller, api, pipe>>

\* vban_get_index_from_sr(sample_rate), and the rate of what it returned
IndexFromSr ==
    /\ call.op = "sample_rate"
    /\ LET idx == vban_get_index_from_sr(call.sample_rate)
       IN  call' = [op |-> "vban_get_index_from_sr", sample_rate |-> call.sample_rate,
                    ret |-> idx, back |-> vban_get_sr_from_index(idx)]
    /\ UNCHANGED <<cb, rx, sock, freed, uaf, task, queue, caller, api, pipe>>

\* vban_data_type_t values and integers outside the enum
DataTypes == 0..9

\* vban_get_data_type_size(data_type)
DataTypeSize ==
    /\ call.op = "data_type"
    /\ call' = [op |-> "vban_get_data_type_size", data_type |-> call.data_type,
                ret |-> vban_get_data_type_size(call.data_type)]
    /\ UNCHANGED <<cb, rx, sock, freed, uaf, task, queue, caller, api, pipe>>

\* VBAN_MAX_PAYLOAD_SIZE as vban.c is compiled: the sender is modelled with
\* the packet sizes of the program
SenderMaxPayload == 1436

\* the first n bytes of the caller's sample buffer
AudioData(n) == [i \in 1..n |-> i % 251]

\* no instance: what the create functions return on failure
NoHandle == [type |-> "NULL"]

\* stream names of 0, 11, 15 and 16 characters
Name15 == VBAN_EXPECTED_STREAM \o <<88, 88, 88, 88>>
CreateNames == {<<>>, VBAN_EXPECTED_STREAM, Name15, Name15 \o <<88>>}

\* strlen(config->stream_name) >= VBAN_STREAM_NAME_MAX_LEN on a char[16]:
\* with 16 characters there is no terminator inside the array and strlen
\* runs on into the bytes behind it; whatever it finds there, the length it
\* returns is at least 16
NameTooLong(stream_name) == Len(stream_name) >= VBAN_STREAM_NAME_MAX_LEN

\* vban_sender_create with a destination address and a socket that succeed
vban_sender_create(config) ==
    IF NameTooLong(config.stream_name) THEN NoHandle
    ELSE [type |-> "SENDER", stream_name |-> config.stream_name,
          sample_rate_idx |-> config.sample_rate_idx,
          num_channels |-> config.num_channels, data_type |-> config.data_type,
          frame_counter |-> U32(0, 0)]

\* vban_receiver_create with a socket and a bind that succeed
vban_receiver_create(config) ==
    IF ~config.audio_callback THEN NoHandle
    ELSE IF NameTooLong(config.expected_stream_name) THEN NoHandle
    ELSE [type |-> "RECEIVER",
          expected_stream_name |-> Name16(config.expected_stream_name),
          audio_callback |-> config.audio_callback]

CreateInputs ==
    { [op |-> "sender_config", stream_name |-> nm, sample_rate_idx |-> 3,
       num_channels |-> 1, data_type |-> VBAN_DATATYPE_INT16] : nm \in CreateNames }
      \cup
    { [op |-> "receiver_config", expected_stream_name |-> nm, audio_callback |-> f] :
        nm \in CreateNames, f \in BOOLEAN }

SenderCreate ==
    /\ call.op = "sender_config"
    /\ call' = [op |-> "vban_sender_create", config |-> call,
                handle |-> vban_sender_create(call)]
    /\ UNCHANGED <<cb, rx, sock, freed, uaf, task, queue, caller, api, pipe>>

ReceiverCreate ==
    /\ call.op = "receiver_config"
    /\ call' = [op |-> "vban_receiver_create", config |-> call,
                handle |-> vban_receiver_create(call)]
    /\ UNCHANGED <<cb, rx, sock, freed, uaf, task, queue, caller, api, pipe>>

SendKeepsCounter(x) == x

\* the value of frame_counter after `frame_counter++`
SendAdvance(x) == U32Inc(x)

SendLimitOff == SenderMaxPayload + VBAN_HEADER_SIZE

\* the largest payload vban_audio_send accepts
SendLimit == SenderMaxPayload

\* vban_audio_send on the instance snd (its type, configuration and frame
\* counter), with audio_data NULL or not, num_samples, and what sendto does.
\* The result: the return value, the packets handed to sendto, the frame
\* counter afterwards.
vban_audio_send(snd, data_null, num_samples, sendto) ==
    LET sample_component_size == vban_get_data_type_size(snd.data_type)
        audio_payload_size == num_samples * snd.num_channels * sample_component_size
        packet ==
            Dgram(VBAN_HEADER_SIZE + audio_payload_size, VBAN_MAGIC_NUMBER,
                  vban_util_get_sr_subprotocol_byte(snd.sample_rate_idx, VBAN_SUBPROTOCOL_AUDIO),
                  (num_samples - 1) % 256, (snd.num_channels - 1) % 256,
                  vban_util_get_format_codec_byte(snd.data_type, VBAN_CODEC_PCM, FALSE),
                  Name16(snd.stream_name), snd.frame_counter,
                  AudioData(audio_payload_size))
        quiet(ret) == [ret |-> ret, sent |-> <<>>, frame_counter |-> snd.frame_counter]
    IN  IF snd.type # "SENDER" THEN quiet(ESP_ERR_VBAN_INVALID_HANDLE)
        ELSE IF data_null \/ num_samples = 0 THEN quiet(ESP_ERR_VBAN_INVALID_ARG)
        ELSE IF sample_component_size = 0 THEN quiet(ESP_ERR_VBAN_INVALID_ARG)
        ELSE IF audio_payload_size > SendLimit
             THEN quiet(ESP_ERR_VBAN_PAYLOAD_TOO_LARGE)
        ELSE [ret |-> IF sendto = "ok" THEN ESP_OK ELSE ESP_ERR_VBAN_SEND_FAIL,
              sent |-> IF sendto = "fail" THEN <<>> ELSE <<packet>>,
              frame_counter |-> SendAdvance(snd.frame_counter)]

\* the instances vban_audio_send is called on: senders as
\* vban_sender_create makes them (the configuration is copied unchecked, so
\* the rate index may be the not-found answer of vban_get_index_from_sr),
\* after any number of frames, and receivers
SendHandles ==
    { [type |-> ty, stream_name |-> f.stream_name,
       sample_rate_idx |-> f.sample_rate_idx, num_channels |-> ch,
       data_type |-> dt, frame_counter |-> fc] :
        ty \in {"SENDER", "RECEIVER"},
        f \in { [stream_name |-> <<>>, sample_rate_idx |-> 0],
                [stream_name |-> VBAN_EXPECTED_STREAM, sample_rate_idx |-> 3],
                [stream_name |-> Name15, sample_rate_idx |-> VBAN_SR_705600],
                [stream_name |-> VBAN_EXPECTED_STREAM,
                 sample_rate_idx |-> VBAN_SR_MAX_INDEX] },
        ch \in {0, 1, 2, 255},
        dt \in DataTypes,
        fc \in {U32(0, 0), U32(0, 65535), U32(65535, 65535)} }

SendInputs ==
    { [op |-> "send", data_null |-> n, num_samples |-> k, snd |-> h,
       calls |-> 0, stamped |-> <<>>] :
        n \in BOOLEAN, k \in {0, 1, 2, 180, 239, 255}, h \in SendHandles }

\* vban_audio_send(handle, audio_data, num_samples), up to MaxSends times on
\* the same instance; `stamped` lists the frame counters of the packets
\* handed to sendto so far, with what sendto did
AudioSend ==
    /\ \/ call.op = "send"
       \/ call.op = "vban_audio_send" /\ call.calls < MaxSends
    /\ \E sendto \in {"ok", "fail", "partial"} :
        LET snd == IF call.op = "send" THEN call.snd
                   ELSE [call.snd EXCEPT !.frame_counter = call.frame_counter]
            r == vban_audio_send(snd, call.data_null, call.num_samples, sendto)
            built == r.frame_counter # snd.frame_counter
        IN  call' = [op |-> "vban_audio_send", snd |-> snd,
                     data_null |-> call.data_null, num_samples |-> call.num_samples,
                     sendto |-> sendto, datagrams |-> IF built THEN 1 ELSE 0,
                     ret |-> r.ret, sent |-> r.sent, frame_counter |-> r.frame_counter,
                     calls |-> call.calls + 1,
                     stamped |-> IF built
                                 THEN Append(call.stamped, [frame_counter |-> snd.frame_counter,
                                                            sendto |-> sendto])
                                 ELSE call.stamped]
    /\ UNCHANGED <<cb, rx, sock, freed, uaf, task, queue, caller, api, pipe>>

\* receivers the sent datagram reaches: filter empty, equal to the sender's
\* name, another name
RoundTripConfigs(snd) ==
    { [expected_stream_name |-> Name16(nm), audio_callback |-> TRUE] :
        nm \in {<<>>, snd.stream_name, OtherStreamName} }

\* what the callback reads from the header and the payload it is handed
DecodeHeader(d) ==
    [sample_rate_idx |-> vban_util_parse_sr_subprotocol_byte(d.sr_subprotocol).sr_idx,
     data_type |-> vban_util_parse_format_codec_byte(d.format_codec).data_type,
     num_channels |-> d.channels_m1 + 1,
     num_samples |-> d.samples_per_frame_m1 + 1,
     stream_name |-> d.stream_name,
     frame_counter |-> d.frame_counter,
     payload |-> SubSeq(d.payload, 1, AudioDataLen(d))]

\* the datagram a successful vban_audio_send transmitted arrives in
\* rx_buffer and goes through one pass of the receive loop
ReceiveSent ==
    /\ call.op = "vban_audio_send"
    /\ call.ret = ESP_OK
    /\ \E cfg \in RoundTripConfigs(call.snd) :
        LET d == call.sent[1]
            disp == ReceiveDisposition(d, cfg)
        IN  call' = [op |-> "roundtrip", snd |-> call.snd,
                     num_samples |-> call.num_samples, d |-> d, cfg |-> cfg,
                     disposition |-> disp,
                     callbacks |-> IF disp = "dispatch" THEN 1 ELSE 0,
                     header |-> DecodeHeader(d),
                     audio_data_len |-> AudioDataLen(d)]
    /\ UNCHANGED <<cb, rx, sock, freed, uaf, task, queue, caller, api, pipe>>

\* the headers handed to the callback: every sample rate index, 1, 2, 255
\* and 256 channels, every data type with and without the reserved bit
CallbackHeaders ==
    { Dgram(VBAN_HEADER_SIZE + n, VBAN_MAGIC_NUMBER, srsp, 0, ch, fc,
            Name16(VBAN_EXPECTED_STREAM), U32(0, 0), StreamBytes(0, n)) :
        srsp \in 0..VBAN_SR_INDEX_MASK, ch \in {0, 1, 254, 255}, fc \in 0..15,
        n \in {1, PipeMaxPayload} }

\* the ring buffer the callback finds: empty, or holding one byte
CallbackRings ==
    LET empty == circular_buffer_init_ok(CbZero, PipeCapacity,
                                         [i \in 0..(2 * PipeCapacity - 1) |-> -1])
    IN  {empty, circular_buffer_write(empty, DataPtr(<<77>>), 1).cb}

RECURSIVE ChunkLoopRun(_, _)
\* the chunking loop run to its end while the queue q has room: the ring
\* buffer and the queue when the callback returns
ChunkLoopRun(c, q) ==
    LET l == ChunkLoop(c)
        r == circular_buffer_consume(c, AUDIO_BUFFER_SIZE)
    IN  IF l.pc # "push" THEN [cb |-> c, queue |-> q]
        ELSE IF r.ret # CB_SUCCESS THEN [cb |-> c, queue |-> Append(q, l.chunk)]
        ELSE ChunkLoopRun(r.cb, Append(q, l.chunk))

\* vban_receive_callback(header, audio_data, audio_data_len, ...) on the
\* ring buffer c and the queue q
vban_receive_callback(c, q, header, audio_data, audio_data_len) ==
    IF ~CallbackAccepts(header) THEN [cb |-> c, queue |-> q]
    ELSE LET w == circular_buffer_write(c, DataPtr(audio_data), audio_data_len)
         IN  IF w.ret # CB_SUCCESS THEN [cb |-> c, queue |-> q]
             ELSE ChunkLoopRun(w.cb, q)

CallbackRun ==
    /\ call.op = "dispatch"
    /\ LET r == vban_receive_callback(call.ring, <<>>, call.d, call.d.payload,
                                      AudioDataLen(call.d))
       IN  call' = [op |-> "vban_receive_callback", d |-> call.d, ring |-> call.ring,
                    cb |-> r.cb, queue |-> r.queue]
    /\ UNCHANGED <<cb, rx, sock, freed, uaf, task, queue, caller, api, pipe>>

\* Both parsers and both packers on one uint8_t value, and what the receive
\* loop does with an otherwise valid packet that carries the value as its
\* sample-rate byte (audio) or as its format byte (pcm)
ParseBytes ==
    /\ call.op = "byte"
    /\ LET b  == call.byte_val
           sr == vban_util_parse_sr_subprotocol_byte(b)
           fc == vban_util_parse_format_codec_byte(b)
           asSr == Dgram(VBAN_HEADER_SIZE, VBAN_MAGIC_NUMBER, b, 0, 0, VBAN_DATATYPE_INT16,
                         Name16(VBAN_EXPECTED_STREAM), U32(0, 0), <<>>)
           asFc == Dgram(VBAN_HEADER_SIZE, VBAN_MAGIC_NUMBER, 0, 0, 0, b,
                         Name16(VBAN_EXPECTED_STREAM), U32(0, 0), <<>>)
       IN  call' = [op |-> "parse", byte_val |-> b, sr |-> sr, fc |-> fc,
                    sr_back |-> vban_util_get_sr_subprotocol_byte(sr.sr_idx, sr.sub_protocol_id),
                    fc_back |-> vban_util_get_format_codec_byte(fc.data_type, fc.codec_id,
                                                                fc.reserved_bit),
                    audio |-> ReceiveDisposition(asSr, ReceiverConfig) # "subprotocol",
                    pcm |-> ReceiveDisposition(asFc, ReceiverConfig) # "codec"]
    /\ UNCHANGED <<cb, rx, sock, freed, uaf, task, queue, caller, api, pipe>>

CodecInputs ==
    ReceiveInputs \cup SrInputs \cup SendInputs \cup CreateInputs
      \cup {[op |-> "byte", byte_val |-> b] : b \in 0..255}
      \cup {[op |-> "data_type", data_type |-> dt] : dt \in DataTypes}
      \cup {[op |-> "dispatch", d |-> d, ring |-> c] : d \in CallbackHeaders, c \in CallbackRings}

InitCodec ==
    /\ cb = CbZero
    /\ call \in CodecInputs
    /\ RxIdle

NextCodec ==
    \/ ReceivePass
    \/ SrFromIndex
    \/ IndexFromSr
    \/ DataTypeSize
    \/ SenderCreate
    \/ ReceiverCreate
    \/ AudioSend
    \/ ReceiveSent
    \/ CallbackRun
    \/ ParseBytes

SpecCodec == InitCodec /\ [][NextCodec]_vars

\* ------------------------------------------------------------------------
\* Ring buffer properties (checked under SpecCB)
\* ------------------------------------------------------------------------
\* The readable region: count bytes starting at physical position tail.
Region(c) == BytesAt(c, c.tail, c.count)

\* C1: once initialised with capacity C > 0, every write and consume call,
\* successful or failing, leaves 0 <= count <= capacity, the capacity
\* unchanged, and head and tail inside 0..capacity-1.
C1_CapacityInvariant ==
    [][ /\ (call'.op \in {"write", "consume"} /\ cb.is_initialized)
            => /\ cb'.is_initialized
               /\ cb'.capacity = cb.capacity
        /\ cb'.is_initialized
            => /\ cb'.capacity > 0
               /\ cb'.count >= 0 /\ cb'.count <= cb'.capacity
               /\ cb'.head \in 0..(cb'.capacity - 1)
               /\ cb'.tail \in 0..(cb'.capacity - 1) ]_cbvars

\* A failing write on a full buffer whose cursors have wrapped.
C1_Witness ==
    /\ cb.is_initialized /\ call.op = "write"
    /\ call.ret = CB_ERROR_BUFFER_FULL
    /\ cb.count = cb.capacity /\ cb.tail > 0 /\ cb.head = cb.tail

\* C2: a write of n > capacity - count bytes returns CB_ERROR_BUFFER_FULL and
\* changes nothing; a write of 0 < n <= capacity - count bytes returns
\* CB_SUCCESS, stores all n bytes in the primary and the mirror half and
\* nothing else, and count grows by n.  No call stores part of its data.
C2_WriteAllOrNothing ==
    [][ (call'.op = "write" /\ cb.is_initialized /\ ~call'.data.null) =>
          LET n    == call'.bytes
              free == cb.capacity - cb.count
              C    == cb.capacity
              dst  == {(cb.head + i) % C : i \in 0..(n - 1)}
          IN  /\ n > free => /\ call'.ret = CB_ERROR_BUFFER_FULL
                             /\ cb' = cb
              /\ (n > 0 /\ n <= free) =>
                    /\ call'.ret = CB_SUCCESS
                    /\ cb'.count = cb.count + n
                    /\ cb'.head = (cb.head + n) % C
                    /\ cb'.tail = cb.tail /\ cb'.capacity = C
                    /\ \A i \in 0..(n - 1) :
                          /\ cb'.buffer[(cb.head + i) % C] = call'.data.mem[i + 1]
                          /\ cb'.buffer[((cb.head + i) % C) + C] = call'.data.mem[i + 1]
                    /\ \A p \in 0..(C - 1) : p \notin dst =>
                          /\ cb'.buffer[p] = cb.buffer[p]
                          /\ cb'.buffer[p + C] = cb.buffer[p + C]
              /\ call'.ret # CB_SUCCESS => cb' = cb ]_cbvars

\* A write refused although part of its data would have fitted.
C2_Witness ==
    /\ cb.is_initialized /\ call.op = "write"
    /\ call.ret = CB_ERROR_BUFFER_FULL
    /\ cb.count > 0 /\ cb.count < cb.capacity
    /\ call.bytes > cb.capacity - cb.count

\* C3: the readable region is the count bytes at tail..tail+count-1 of the
\* 2*C store, it lies inside the store, and it holds the written and not yet
\* consumed bytes in write order: empty after init, extended by exactly the
\* data of each successful write, shortened from the front by each consume.
C3_ContiguousFifo ==
    [][ /\ (call'.op = "init" /\ call'.ret = CB_SUCCESS) => Region(cb') = <<>>
        /\ (call'.op = "write" /\ call'.ret = CB_SUCCESS /\ call'.bytes > 0) =>
              /\ call'.in_bounds
              /\ Region(cb') = Region(cb) \o call'.data.mem
        /\ (call'.op = "consume" /\ call'.ret = CB_SUCCESS) =>
              Region(cb') = SubSeq(Region(cb), call'.bytes + 1, cb.count)
        /\ (call'.op = "region" /\ cb.is_initialized /\ cb.count > 0) =>
              /\ call'.ptr = cb.tail
              /\ call'.readable_bytes = cb.count
              /\ call'.ptr >= 0
              /\ call'.ptr + call'.readable_bytes <= 2 * cb.capacity
              /\ BytesAt(cb, call'.ptr, call'.readable_bytes) = Region(cb) ]_cbvars

\* A region handed out that runs past the logical end into the mirror half.
C3_Witness ==
    /\ cb.is_initialized /\ call.op = "region" /\ call.ptr # NULL
    /\ call.ptr + call.readable_bytes > cb.capacity
    /\ \E i, j \in 1..cb.count : Region(cb)[i] # Region(cb)[j]

\* C4: consume(n) with 0 < n <= count returns CB_SUCCESS, moves tail to
\* (tail + n) mod capacity, lowers count by n and leaves head and the store
\* alone; with n > count it returns CB_ERROR_CONSUME_TOO_MUCH and with n = 0
\* CB_SUCCESS, both without any change.
C4_Consume ==
    [][ (call'.op = "consume" /\ cb.is_initialized) =>
          LET n == call'.bytes
          IN  /\ (n > 0 /\ n <= cb.count) =>
                    /\ call'.ret = CB_SUCCESS
                    /\ cb'.tail = (cb.tail + n) % cb.capacity
                    /\ cb'.count = cb.count - n
                    /\ cb'.head = cb.head
                    /\ cb'.buffer = cb.buffer
              /\ n > cb.count => /\ call'.ret = CB_ERROR_CONSUME_TOO_MUCH
                                 /\ cb' = cb
              /\ n = 0 => /\ call'.ret = CB_SUCCESS
                          /\ cb' = cb ]_cbvars

\* A successful consume that carried tail past the logical end.
C4_Witness ==
    /\ cb.is_initialized /\ call.op = "consume" /\ call.ret = CB_SUCCESS
    /\ call.bytes > cb.tail /\ cb.count > 0

\* C5: get_readable_region changes nothing (head, tail, count, capacity,
\* store), reports readable_bytes = count, and returns NULL with 0 bytes
\* when count = 0; so any number of calls between two other operations
\* leaves those operations with the same object to act on.
C5_RegionReadOnly ==
    [][ call'.op = "region" =>
          /\ cb' = cb
          /\ call'.readable_bytes = circular_buffer_get_count(cb)
          /\ (cb.is_initialized /\ cb.count = 0) =>
                (call'.ptr = NULL /\ call'.readable_bytes = 0)
          /\ (cb.is_initialized /\ cb.count > 0) => call'.ptr # NULL ]_cbvars

\* A region handed out from a partly filled buffer.
C5_Witness ==
    /\ cb.is_initialized /\ call.op = "region"
    /\ call.ptr # NULL /\ call.readable_bytes = cb.count
    /\ cb.count > 0 /\ cb.count < cb.capacity /\ cb.tail > 0

\* ------------------------------------------------------------------------
\* Receiver lifecycle properties (checked under SpecRx and FairSpecRx)
\* ------------------------------------------------------------------------
IsCallerStep == caller' # caller

\* C6: vban_receiver_start that finds the state Running or Stopping returns
\* ESP_ERR_VBAN_ALREADY_STARTED, creates no thread, and leaves the state
\* and the task handle as they were.
C6_StartRejected ==
    [][ ( /\ StartCheck
          /\ rx.state \in {VBAN_RECEIVER_STATE_RUNNING, VBAN_RECEIVER_STATE_STOPPING} )
        => /\ api' = [fn |-> "start", ret |-> ESP_ERR_VBAN_ALREADY_STARTED]
           /\ caller'.pc = "idle"
           /\ rx' = rx
           /\ task' = task ]_vars

\* start has just been refused on a receiver that is Stopping, its thread
\* still alive.
C6_Witness ==
    /\ api = [fn |-> "start", ret |-> ESP_ERR_VBAN_ALREADY_STARTED]
    /\ caller.pc = "idle"
    /\ rx.state = VBAN_RECEIVER_STATE_STOPPING
    /\ rx.receive_task_handle # NoTask
    /\ \E t \in Tasks : task[t].pc \in LoopPcs

\* C7: vban_receiver_stop on a Running receiver writes Stopping before it
\* shuts the socket down, returns ESP_OK without waiting for the thread,
\* and never shuts the socket down while the state is Running.
C7_StopOrdering ==
    [][ /\ (caller'.pc = "stop_shutdown" /\ IsCallerStep)
            => /\ caller.pc = "stop_set"
               /\ rx'.state = VBAN_RECEIVER_STATE_STOPPING
        /\ (sock' # sock /\ sock' = "shutdown")
            => caller.pc = "stop_shutdown"
        /\ (caller.pc = "stop_shutdown" /\ IsCallerStep)
            => /\ api' = [fn |-> "stop", ret |-> ESP_OK]
               /\ task' = task
               /\ rx.state # VBAN_RECEIVER_STATE_RUNNING ]_vars

\* C8: once vban_receiver_stop has returned ESP_OK, every receive thread
\* alive at that moment eventually finishes (handle cleared, state Idle,
\* thread deleted), whether it was blocked in recvfrom or in xQueueSend.
\* What a thread does once vban_receiver_delete has freed the instance is
\* not held against the stop protocol.
C8_StopLiveness ==
    \A t \in Tasks :
        (api = [fn |-> "stop", ret |-> ESP_OK] /\ task[t].pc \in AlivePcs)
            ~> (task[t].pc = "dead" \/ freed)

\* C9: the state goes back to Idle, and an API call clears the task handle,
\* only when no receive thread is inside its receive loop.
C9_IdleOnlyAfterExit ==
    [][ ( \/ (rx.state # VBAN_RECEIVER_STATE_IDLE /\ rx'.state = VBAN_RECEIVER_STATE_IDLE)
          \/ (IsCallerStep /\ rx.receive_task_handle # NoTask
                           /\ rx'.receive_task_handle = NoTask) )
        => \A t \in Tasks : task'[t].pc \notin LoopPcs ]_vars

\* C10: the socket is closed and the instance freed only when no receive
\* thread is alive, and no thread touches the instance after the free.
C10_DeleteAfterExit ==
    /\ (sock = "closed" \/ freed) => \A t \in Tasks : task[t].pc \notin AlivePcs
    /\ ~uaf

\* ------------------------------------------------------------------------
\* Decoder properties (checked under SpecCodec)
\* ------------------------------------------------------------------------
\* the sub-protocol and codec fields of the two packed header bytes
SubProtocolField(d) == (d.sr_subprotocol \div 32) % 8
CodecField(d) == (d.format_codec \div 16) % 16

\* the name a 16-byte field holds: its bytes up to the first NUL
CStr(name) ==
    LET nul == {i \in 1..Len(name) : name[i] = 0}
        end == IF nul = {} THEN Len(name)
               ELSE (CHOOSE i \in nul : \A j \in nul : i <= j) - 1
    IN  SubSeq(name, 1, end)

\* C11: the callback is invoked only for a datagram of at least 28 bytes
\* with the VBAN magic, passing the name filter, with sub-protocol audio and
\* codec PCM; a short datagram, a wrong magic, another sub-protocol or codec
\* never reaches it, and a short datagram is dropped whatever the bytes past
\* its length are.
C11_DispatchOnlyValid ==
    call.op = "receive" =>
        /\ call.disposition = "dispatch" =>
              /\ call.d.len >= 28
              /\ call.d.vban_magic = VBAN_MAGIC_NUMBER
              /\ \/ call.cfg.expected_stream_name[1] = 0
                 \/ CStr(call.d.stream_name) = CStr(call.cfg.expected_stream_name)
              /\ SubProtocolField(call.d) = 0
              /\ CodecField(call.d) = 0
        /\ ( \/ call.d.len < 28
             \/ call.d.vban_magic # VBAN_MAGIC_NUMBER
             \/ SubProtocolField(call.d) # 0
             \/ CodecField(call.d) # 0 ) => call.callbacks = 0
        /\ call.d.len < 28 => call.disposition = "short"

\* a datagram one byte short of a header, every field as in a valid packet,
\* was dropped
C11_Witness ==
    /\ call.op = "receive"
    /\ call.d.len = VBAN_HEADER_SIZE - 1
    /\ call.d.vban_magic = VBAN_MAGIC_NUMBER
    /\ call.d.stream_name = Name16(VBAN_EXPECTED_STREAM)
    /\ call.d.sr_subprotocol = 3 /\ call.d.format_codec = 1
    /\ call.cfg = ReceiverConfig
    /\ call.callbacks = 0

\* C12: with a non-empty expected name, a packet passes the name filter
\* exactly when the 16 bytes of its stream-name field equal the expected
\* name zero-padded to 16 bytes.
C12_ExactNameFilter ==
    ( /\ call.op = "receive"
      /\ call.d.len >= VBAN_HEADER_SIZE
      /\ call.d.vban_magic = VBAN_MAGIC_NUMBER
      /\ call.cfg.expected_stream_name[1] # 0 )
    => ( call.disposition # "name"
            <=> call.d.stream_name = call.cfg.expected_stream_name )

\* C13: configured with "TestStream1" the receiver drops every audio/PCM
\* packet whose field holds another name and dispatches the one holding
\* "TestStream1" and five NULs; configured with the empty name it
\* dispatches audio/PCM packets whatever their name field.
C13_NameFilterCases ==
    ( /\ call.op = "receive"
      /\ call.d.len >= VBAN_HEADER_SIZE
      /\ call.d.vban_magic = VBAN_MAGIC_NUMBER
      /\ SubProtocolField(call.d) = 0 /\ CodecField(call.d) = 0
      /\ call.cfg.audio_callback )
    => /\ ( /\ CStr(call.cfg.expected_stream_name) = VBAN_EXPECTED_STREAM
            /\ CStr(call.d.stream_name) # VBAN_EXPECTED_STREAM )
          => call.disposition = "name" /\ call.callbacks = 0
       /\ ( /\ CStr(call.cfg.expected_stream_name) = VBAN_EXPECTED_STREAM
            /\ call.d.stream_name = VBAN_EXPECTED_STREAM \o <<0, 0, 0, 0, 0>> )
          => call.callbacks = 1
       /\ CStr(call.cfg.expected_stream_name) = <<>> => call.callbacks = 1

\* "OtherStream" was dropped by the receiver configured with "TestStream1"
C13_Witness ==
    /\ call.op = "receive"
    /\ call.cfg = ReceiverConfig
    /\ call.d.len = VBAN_MAX_PACKET_SIZE
    /\ call.d.vban_magic = VBAN_MAGIC_NUMBER
    /\ call.d.sr_subprotocol = 3 /\ call.d.format_codec = 1
    /\ call.d.stream_name = Name16(OtherStreamName)
    /\ call.disposition = "name"

\* C14: an audio/PCM packet that passes the filter and whose payload length
\* differs from (samples + 1) * (channels + 1) * data type size is handed to
\* the callback once, with audio_data_len = len - 28, and the loop goes on.
C14_MismatchStillDispatched ==
    ( /\ call.op = "receive"
      /\ call.d.len >= VBAN_HEADER_SIZE
      /\ call.d.vban_magic = VBAN_MAGIC_NUMBER
      /\ \/ call.cfg.expected_stream_name[1] = 0
         \/ call.d.stream_name = call.cfg.expected_stream_name
      /\ SubProtocolField(call.d) = 0 /\ CodecField(call.d) = 0
      /\ call.cfg.audio_callback
      /\ call.d.len - 28 # ExpectedPayloadSize(call.d) )
    => /\ call.callbacks = 1
       /\ call.audio_data_len = call.d.len - 28
       /\ call.next = "loop"

\* a packet of the packed INT12 type (size 0) with a payload was dispatched
C14_Witness ==
    /\ call.op = "receive"
    /\ call.cfg = ReceiverConfig
    /\ call.d.format_codec = 6
    /\ call.d.len = VBAN_MAX_PACKET_SIZE
    /\ ExpectedPayloadSize(call.d) = 0
    /\ call.callbacks = 1
    /\ call.audio_data_len = VBAN_MAX_PAYLOAD_SIZE

\* ------------------------------------------------------------------------
\* Table properties (checked under SpecCodec)
\* ------------------------------------------------------------------------
\* C19: index -> rate -> index is the identity on the 21 defined indices,
\* rate -> index -> rate on the 21 rates of the table; a rate outside the
\* table (0 too) gives VBAN_SR_MAX_INDEX; an index of 21 or more gives 0.
C19_SampleRateTable ==
    /\ call.op = "vban_get_sr_from_index" =>
          /\ call.sr_idx <= 20 => call.ret > 0 /\ call.back = call.sr_idx
          /\ call.sr_idx >= 21 => call.ret = 0
    /\ call.op = "vban_get_index_from_sr" =>
          IF \E i \in 1..21 : VBAN_SAMPLE_RATES_LUT[i] = call.sample_rate
          THEN call.ret \in 0..20 /\ call.back = call.sample_rate
          ELSE call.ret = VBAN_SR_MAX_INDEX

\* the rate 0, which the zero-filled tail of the array holds, was looked up
C19_Witness ==
    /\ call.op = "vban_get_index_from_sr"
    /\ call.sample_rate = 0
    /\ call.ret = VBAN_SR_MAX_INDEX

\* C20: the sizes are 1, 2, 3, 4, 4, 8 for UINT8..FLOAT64 and 0 for INT12,
\* INT10 and anything else; vban_audio_send on a sender whose data type has
\* size 0 returns ESP_ERR_VBAN_INVALID_ARG, sends nothing and keeps the
\* frame counter.
C20_DataTypeSize ==
    /\ call.op = "vban_get_data_type_size" =>
          call.ret = IF call.data_type \in 0..5
                     THEN <<1, 2, 3, 4, 4, 8>>[call.data_type + 1] ELSE 0
    /\ ( /\ call.op = "vban_audio_send"
         /\ call.snd.type = "SENDER"
         /\ call.snd.data_type \notin 0..5 )
       => /\ call.ret = ESP_ERR_VBAN_INVALID_ARG
          /\ call.sent = <<>>
          /\ call.frame_counter = call.snd.frame_counter

\* a send of one INT12 sample with valid arguments was refused
C20_Witness ==
    /\ call.op = "vban_audio_send"
    /\ call.snd.type = "SENDER" /\ call.snd.data_type = 6
    /\ call.snd.num_channels = 1 /\ call.snd.frame_counter = U32(0, 65535)
    /\ ~call.data_null /\ call.num_samples = 1
    /\ call.ret = ESP_ERR_VBAN_INVALID_ARG

\* ------------------------------------------------------------------------
\* Pipeline properties (checked under SpecPipe)
\* ------------------------------------------------------------------------
\* the callback is not running: the producer waits in recvfrom
CallbackReturned == task[Producer].pc = "recv"

\* C15: re-chunking.  A callback that found r bytes in the ring buffer and
\* accepted an n-byte payload has enqueued floor((r + n) / chunk size) chunks
\* when it returns and leaves (r + n) mod chunk size bytes, fewer than one
\* chunk; until then it has enqueued fewer.  Every chunk is of exactly the
\* chunk size and held, when it was enqueued, the payload bytes in their
\* original order.
C15_Rechunking ==
    LET total == pipe.entry_count + pipe.len
    IN  /\ pipe.write_ret = CB_SUCCESS
        /\ \A i \in 1..Len(queue) :
              /\ queue[i].size = AUDIO_BUFFER_SIZE
              /\ pipe.held[i].bytes = StreamChunk(pipe.held[i].seq)
        /\ CallbackReturned =>
              /\ pipe.chunks = total \div AUDIO_BUFFER_SIZE
              /\ cb.count = total % AUDIO_BUFFER_SIZE
              /\ cb.count < AUDIO_BUFFER_SIZE
        /\ ~CallbackReturned => pipe.chunks < total \div AUDIO_BUFFER_SIZE

\* a payload of two chunks arrived when one byte was left over: the callback
\* has returned with two chunks enqueued and one byte left
C15_Witness ==
    /\ CallbackReturned
    /\ pipe.entry_count = 1
    /\ pipe.len = 2 * AUDIO_BUFFER_SIZE
    /\ pipe.chunks = 2
    /\ cb.count = 1

\* C16: delivery order.  The chunks in the queue are, in queue order, the
\* chunks popped + 0, popped + 1, ... of the producer, none skipped or
\* duplicated, and the chunk the consumer dequeues k-th covers bytes
\* [size * k, size * k + size) of the accepted stream.
C16_DeliveryOrder ==
    /\ pipe.pushed = pipe.popped + Len(queue)
    /\ \A i \in 1..Len(queue) :
          LET k == pipe.popped + i - 1
          IN  /\ pipe.held[i].seq = k
              /\ queue[i].buffer = (AUDIO_BUFFER_SIZE * k) % PipeCapacity
              /\ BytesAt(cb, queue[i].buffer, queue[i].size) = StreamChunk(k)

\* C17: a chunk owns its bytes.  From its enqueueing until the consumer has
\* written it to the sink, the bytes a chunk descriptor refers to are the
\* bytes it referred to when it was enqueued, and the consumer renders
\* exactly those.
C17_ChunkOwnsBytes ==
    /\ \A i \in 1..Len(queue) :
          BytesAt(cb, queue[i].buffer, queue[i].size) = pipe.held[i].bytes
    /\ pipe.writer = "write" =>
          BytesAt(cb, pipe.audio_buf.buffer, pipe.audio_buf.size) = pipe.cur.bytes
    /\ (pipe.writer = "pop" /\ pipe.popped > 0) => pipe.rendered = pipe.cur.bytes

\* C18: backpressure.  The queue never holds more than its length, the
\* producer cannot complete a push while the queue is full, and as long as
\* no circular_buffer_write has reported an error every chunk the consumer
\* has rendered is the next chunk of the accepted stream: nothing is lost.
C18_Backpressure ==
    /\ Len(queue) <= PipeQueueCount
    /\ (task[Producer].pc = "push" /\ Len(queue) = PipeQueueCount) => ~ENABLED PipePush
    /\ (pipe.write_ret = CB_SUCCESS /\ pipe.writer = "pop" /\ pipe.popped > 0) =>
          pipe.rendered = StreamChunk(pipe.popped - 1)

\* ------------------------------------------------------------------------
\* Sender properties (checked under SpecCodec)
\* ------------------------------------------------------------------------
\* the payload size vban_audio_send computes for the call
SentPayloadSize(snd, num_samples) ==
    num_samples * snd.num_channels * vban_get_data_type_size(snd.data_type)

\* C21: encode/decode round trip.  The datagram vban_audio_send built for a
\* sender with a name of at most 15 characters, a defined rate index, 1..255
\* channels, a data type of non-zero size and 1..255 samples, received with
\* the filter empty or equal to that name, gives exactly one callback; its
\* header decodes to the sender's rate index, data type, channel count,
\* sample count, zero-padded name and frame counter, and its payload is the
\* sent payload, of length samples x channels x size.
C21_RoundTrip ==
    ( /\ call.op = "roundtrip"
      /\ Len(call.snd.stream_name) <= 15
      /\ call.snd.sample_rate_idx \in 0..VBAN_SR_705600
      /\ call.snd.num_channels \in 1..255
      /\ vban_get_data_type_size(call.snd.data_type) # 0
      /\ call.num_samples \in 1..255
      /\ call.cfg.expected_stream_name \in {Name16(<<>>), Name16(call.snd.stream_name)} )
    => LET size == SentPayloadSize(call.snd, call.num_samples)
       IN  /\ size <= SenderMaxPayload
           /\ call.callbacks = 1
           /\ call.header.sample_rate_idx = call.snd.sample_rate_idx
           /\ call.header.data_type = call.snd.data_type
           /\ call.header.num_channels = call.snd.num_channels
           /\ call.header.num_samples = call.num_samples
           /\ call.header.stream_name = Name16(call.snd.stream_name)
           /\ call.header.frame_counter = call.snd.frame_counter
           /\ call.header.payload = AudioData(size)
           /\ call.audio_data_len = size

\* 2 samples of 255 channels of INT16 (1020 bytes) sent under a 15-character
\* name at 705600 Hz with the counter at 2^32 - 1, received by a receiver
\* filtering on that name
C21_Witness ==
    /\ call.op = "roundtrip"
    /\ call.snd.stream_name = Name15
    /\ call.snd.sample_rate_idx = VBAN_SR_705600
    /\ call.snd.num_channels = 255
    /\ call.snd.data_type = VBAN_DATATYPE_INT16
    /\ call.snd.frame_counter = U32(65535, 65535)
    /\ call.num_samples = 2
    /\ call.cfg.expected_stream_name = Name16(Name15)
    /\ call.callbacks = 1
    /\ call.audio_data_len = 1020

\* the call passed the argument validation of vban_audio_send
SendValidated ==
    /\ call.snd.type = "SENDER"
    /\ ~call.data_null
    /\ call.num_samples # 0
    /\ vban_get_data_type_size(call.snd.data_type) # 0
    /\ SentPayloadSize(call.snd, call.num_samples) <= 1436

\* C22: a send whose payload exceeds 1436 bytes returns
\* ESP_ERR_VBAN_PAYLOAD_TOO_LARGE, transmits nothing and keeps the frame
\* counter; what a call transmits is one datagram of 28 + payload <= 1464
\* bytes, and a failed or short sendto gives ESP_ERR_VBAN_SEND_FAIL after
\* that single sendto.
C22_PayloadLimit ==
    call.op = "vban_audio_send" =>
        /\ ( /\ call.snd.type = "SENDER" /\ ~call.data_null /\ call.num_samples # 0
             /\ SentPayloadSize(call.snd, call.num_samples) > 1436 )
           => /\ call.ret = ESP_ERR_VBAN_PAYLOAD_TOO_LARGE
              /\ call.sent = <<>>
              /\ call.datagrams = 0
              /\ call.frame_counter = call.snd.frame_counter
        /\ Len(call.sent) <= 1
        /\ \A i \in 1..Len(call.sent) :
              /\ call.sent[i].len = 28 + Len(call.sent[i].payload)
              /\ call.sent[i].len <= 1464
        /\ (SendValidated /\ call.sendto # "ok")
           => /\ call.ret = ESP_ERR_VBAN_SEND_FAIL
              /\ call.datagrams = 1

\* 180 samples of one FLOAT64 channel are 1440 bytes: refused
C22_Witness ==
    /\ call.op = "vban_audio_send"
    /\ call.snd.type = "SENDER" /\ ~call.data_null
    /\ call.num_samples = 180 /\ call.snd.num_channels = 1 /\ call.snd.data_type = 5
    /\ call.ret = ESP_ERR_VBAN_PAYLOAD_TOO_LARGE

\* C30: a new sender has frame counter 0; a send that passes validation
\* stamps the counter it found into the header and leaves the counter one
\* further modulo 2^32, whatever sendto does; a rejected send leaves the
\* counter alone; the counters stamped by successive sends on one sender
\* follow each other modulo 2^32.
C30_FrameCounter ==
    LET Succ32(x, y) ==
            IF x.lo = 65535 THEN y.lo = 0 /\ y.hi = (x.hi + 1) % 65536
            ELSE y.lo = x.lo + 1 /\ y.hi = x.hi
    IN  /\ (call.op = "vban_sender_create" /\ call.handle.type = "SENDER")
           => call.handle.frame_counter = [hi |-> 0, lo |-> 0]
        /\ call.op = "vban_audio_send" =>
              /\ SendValidated =>
                    /\ Succ32(call.snd.frame_counter, call.frame_counter)
                    /\ \A i \in 1..Len(call.sent) :
                          call.sent[i].frame_counter = call.snd.frame_counter
                    /\ call.sendto # "fail" => Len(call.sent) = 1
              /\ ~SendValidated =>
                    /\ call.frame_counter = call.snd.frame_counter
                    /\ call.sent = <<>>
                    /\ call.ret # ESP_OK
              /\ \A i \in 1..(Len(call.stamped) - 1) :
                    Succ32(call.stamped[i].frame_counter, call.stamped[i + 1].frame_counter)

\* two sends on a sender whose counter was 2^32 - 1: the first, whose sendto
\* failed, was stamped 2^32 - 1 and the second 0
C30_Witness ==
    /\ call.op = "vban_audio_send"
    /\ call.calls = 2
    /\ Len(call.stamped) = 2
    /\ call.stamped[1] = [frame_counter |-> U32(65535, 65535), sendto |-> "fail"]
    /\ call.stamped[2].frame_counter = U32(0, 0)
    /\ call.frame_counter = U32(0, 1)
    /\ call.ret = ESP_OK

\* C26: names of exactly 16 bytes are supported: vban_sender_create and
\* vban_receiver_create (with a callback) given a 16-character name return
\* an instance.
C26_FullLengthNames ==
    /\ (call.op = "vban_sender_create" /\ Len(call.config.stream_name) = 16)
       => call.handle.type = "SENDER"
    /\ ( /\ call.op = "vban_receiver_create"
         /\ call.config.audio_callback
         /\ Len(call.config.expected_stream_name) = 16 )
       => call.handle.type = "RECEIVER"

\* ------------------------------------------------------------------------
\* Callback properties (checked under SpecCodec)
\* ------------------------------------------------------------------------
\* C24: format filtering before the sink.  The callback changes the ring
\* buffer or the queue only for a header whose rate index is 3 (48000 Hz),
\* whose channels_m1 is 0 and whose data type is INT16; for every other
\* header, channels_m1 = 255 included, both are as they were.  A matching
\* header with payload does change the ring buffer.
C24_FormatFilter ==
    call.op = "vban_receive_callback" =>
        LET matches == /\ call.d.sr_subprotocol % 32 = 3
                       /\ call.d.channels_m1 = 0
                       /\ call.d.format_codec % 8 = 1
            changed == call.cb # call.ring \/ call.queue # <<>>
        IN  /\ changed => matches
            /\ ~matches => (call.cb = call.ring /\ call.queue = <<>>)
            /\ matches => changed

\* a 48000 Hz INT16 packet that announces 256 channels was handed to the
\* callback with one byte in the ring buffer, and nothing changed
C24_Witness ==
    /\ call.op = "vban_receive_callback"
    /\ call.d.sr_subprotocol = 3 /\ call.d.format_codec = 1
    /\ call.d.channels_m1 = 255
    /\ call.ring.count = 1
    /\ call.cb = call.ring /\ call.queue = <<>>

\* ------------------------------------------------------------------------
\* Frame counter (checked under SpecPipe)
\* ------------------------------------------------------------------------
\* C25: the frame counter is observational only.  Whatever the counters of
\* the datagrams received so far (in sequence, repeated, going back or
\* wrapping), the callback has been invoked once for every datagram that
\* calls for one, the ring buffer has accepted every payload byte offered
\* in the expected format, and the chunks enqueued are the successive chunks
\* of those bytes, in order.
C25_CounterIgnored ==
    /\ pipe.callbacks = pipe.wanted
    /\ pipe.accepted = pipe.offered
    /\ pipe.pushed = pipe.popped + Len(queue)
    /\ CallbackReturned => pipe.pushed = pipe.accepted \div AUDIO_BUFFER_SIZE
    /\ \A i \in 1..Len(queue) :
          /\ pipe.held[i].seq = pipe.popped + i - 1
          /\ pipe.held[i].bytes = StreamChunk(pipe.held[i].seq)

\* three packets with payload were received, the last with the counter of
\* the first, and the callback has returned with their chunks enqueued
C25_Witness ==
    /\ pipe.irregular
    /\ pipe.packets = 3 /\ pipe.callbacks = 3
    /\ pipe.rx_counter = [hi |-> 0, lo |-> 0]
    /\ pipe.accepted = 3 * PipeMaxPayload
    /\ CallbackReturned
    /\ pipe.pushed = (3 * PipeMaxPayload) \div AUDIO_BUFFER_SIZE

\* ------------------------------------------------------------------------
\* Chunking loop (checked under SpecPipe)
\* ------------------------------------------------------------------------
\* C29: push before consume.  While the producer waits in xQueueSend its
\* descriptor points at the read cursor and the ring buffer still counts the
\* chunk's bytes; the read cursor moves and the count drops only in the step
\* that enqueues that descriptor, and then by exactly one chunk.
C29_PushBeforeConsume ==
    /\ [](task[Producer].pc = "push" =>
            /\ task[Producer].chunk = [buffer |-> cb.tail, size |-> AUDIO_BUFFER_SIZE]
            /\ cb.count >= AUDIO_BUFFER_SIZE)
    /\ [][(cb'.count < cb.count \/ cb'.tail # cb.tail) =>
            /\ task[Producer].pc = "push"
            /\ queue' = Append(queue, [buffer |-> cb.tail, size |-> AUDIO_BUFFER_SIZE])
            /\ cb'.count = cb.count - AUDIO_BUFFER_SIZE
            /\ cb'.tail = (cb.tail + AUDIO_BUFFER_SIZE) % PipeCapacity]_vars
    /\ [][Len(queue') > Len(queue) => cb'.count = cb.count - AUDIO_BUFFER_SIZE]_vars

\* the producer is blocked in xQueueSend on a full queue with more than one
\* chunk still in the ring buffer
C29_Witness ==
    /\ task[Producer].pc = "push"
    /\ Len(queue) = PipeQueueCount
    /\ cb.count > AUDIO_BUFFER_SIZE
    /\ task[Producer].chunk.buffer = cb.tail

\* ------------------------------------------------------------------------
\* Lifecycle errors and the receive loop (checked under SpecRx)
\* ------------------------------------------------------------------------
\* no receive thread was ever created and the state is Idle
NeverStarted ==
    /\ rx.state = VBAN_RECEIVER_STATE_IDLE
    /\ \A t \in Tasks : task[t].pc = "none"

\* C23: vban_receiver_stop on a receiver that was never started takes the
\* not-running branch, returns ESP_ERR_VBAN_NOT_STARTED and not ESP_OK,
\* leaves the socket as it was and the instance Idle without a task handle,
\* so that the guard of a following vban_receiver_start lets it through.
C23_StopNeverStarted ==
    /\ [](NeverStarted =>
            /\ caller.pc \notin {"stop_set", "stop_shutdown"}
            /\ sock # "shutdown"
            /\ ~(api.fn = "stop" /\ api.ret = ESP_OK))
    /\ [][ /\ (NeverStarted /\ StopCheck) => caller'.pc = "stop_ns"
           /\ (NeverStarted /\ caller.pc = "stop_ns" /\ IsCallerStep)
                => /\ api' = [fn |-> "stop", ret |-> ESP_ERR_VBAN_NOT_STARTED]
                   /\ sock' = sock
                   /\ task' = task
                   /\ rx' = [state |-> VBAN_RECEIVER_STATE_IDLE,
                             receive_task_handle |-> NoTask]
                   /\ ~StartBusy(rx'.state, rx'.receive_task_handle) ]_vars

\* vban_receiver_stop, called by the application, has just returned
\* ESP_ERR_VBAN_NOT_STARTED on a receiver that never had a thread
C23_Witness ==
    /\ NeverStarted
    /\ api = [fn |-> "stop", ret |-> ESP_ERR_VBAN_NOT_STARTED]
    /\ caller = [pc |-> "idle", fn |-> "none"]
    /\ sock = "bound"
    /\ rx.receive_task_handle = NoTask

\* C27: while the receiver exists and is Idle, its socket is bound and has
\* not been shut down, and no receive thread is inside its receive loop; a
\* thread that is receiving after a restart therefore receives on a usable
\* socket.
C27_IdleSocketUsable ==
    /\ (rx.state = VBAN_RECEIVER_STATE_IDLE /\ caller.fn # "delete" /\ ~freed)
          => /\ sock = "bound"
             /\ \A t \in Tasks : task[t].pc \notin LoopPcs
    /\ \A t, u \in Tasks :
          (caller.fn # "delete" /\ ~freed /\ task[t].pc = "dead" /\ task[u].pc = "recv")
              => sock = "bound"

\* C28: a receive thread leaves its loop only in a step that finds the state
\* different from Running; a datagram dropped by the loop body or a failed
\* recvfrom while the state is Running takes the thread back to the `while`
\* condition with the lifecycle state untouched, and from there, the state
\* still Running, into recvfrom again.
C28_LoopEndsOnlyOnState ==
    [][ \A t \in Tasks : ~freed =>
          /\ (task[t].pc \in LoopPcs /\ task'[t].pc \notin LoopPcs)
                => /\ task'[t].pc = "exit1"
                   /\ rx.state # VBAN_RECEIVER_STATE_RUNNING
                   /\ rx' = rx
          /\ ( /\ task[t].pc = "recv" /\ task'[t].pc # "recv"
               /\ call' # NoCall
               /\ rx.state = VBAN_RECEIVER_STATE_RUNNING )
                => /\ task'[t].pc = "loop"
                   /\ rx' = rx
          /\ ( /\ task[t].pc = "loop" /\ task'[t].pc # "loop"
               /\ rx.state = VBAN_RECEIVER_STATE_RUNNING )
                => /\ task'[t].pc = "recv"
                   /\ rx' = rx ]_vars

\* a datagram has just been dropped on the open socket: the thread is back
\* at the `while` condition and the receiver is still Running
C28_Witness ==
    \E t \in Tasks :
        /\ task[t].pc = "loop"
        /\ call = Received("dropped")
        /\ rx = [state |-> VBAN_RECEIVER_STATE_RUNNING, receive_task_handle |-> t]
        /\ sock = "bound"
        /\ ~freed

\* ------------------------------------------------------------------------
\* Header bytes (checked under SpecCodec)
\* ------------------------------------------------------------------------
\* C31: for every byte value b the parsers give sample-rate index b mod 32,
\* sub-protocol b div 32, data type b mod 8, reserved bit = bit 3 and codec
\* b div 16, none of them negative; packing the parsed fields gives b
\* again; the receive loop takes the byte for audio exactly when the
\* sub-protocol is 0 and for PCM exactly when the codec is 0.
C31_BitFields ==
    call.op = "parse" =>
        LET b == call.byte_val
        IN  /\ call.sr.sr_idx = b % 32 /\ call.sr.sr_idx \in 0..31
            /\ call.sr.sub_protocol_id = b \div 32 /\ call.sr.sub_protocol_id \in 0..7
            /\ call.fc.data_type = b % 8 /\ call.fc.data_type \in 0..7
            /\ call.fc.reserved_bit = ((b \div 8) % 2 = 1)
            /\ call.fc.codec_id = b \div 16 /\ call.fc.codec_id \in 0..15
            /\ call.sr_back = b
            /\ call.fc_back = b
            /\ call.audio = (call.sr.sub_protocol_id = 0)
            /\ call.pcm = (call.fc.codec_id = 0)

\* a byte with its top bit and its bit 3 set has been parsed and packed again
C31_Witness ==
    /\ call.op = "parse"
    /\ call.byte_val = 255 - 16
    /\ call.sr.sub_protocol_id = 7
    /\ call.fc.reserved_bit
    /\ call.fc_back = call.byte_val
    /\ ~call.audio /\ ~call.pcm

\* ------------------------------------------------------------------------
\* Ring buffer lifecycle and cursors (checked under SpecCB)
\* ------------------------------------------------------------------------
\* C32: init with capacity 0 returns CB_ERROR_INVALID_ARG and changes
\* nothing; a successful init gives head = tail = count = 0 and the capacity
\* asked for; on an object that is not initialised (never initialised, or
\* destroyed) write and consume return CB_ERROR_NOT_INITIALIZED, the
\* observers return 0, empty and not full, no region is handed out, and
\* destroy changes nothing; destroy always leaves the object uninitialised.
C32_Lifecycle ==
    [][ /\ (call'.op = "init" /\ call'.capacity = 0)
            => (call'.ret = CB_ERROR_INVALID_ARG /\ cb' = cb)
        /\ (call'.op = "init" /\ call'.ret = CB_SUCCESS)
            => /\ cb'.is_initialized
               /\ cb'.head = 0 /\ cb'.tail = 0 /\ cb'.count = 0
               /\ cb'.capacity = call'.capacity
        /\ (~cb.is_initialized /\ call'.op \in {"write", "consume"})
            => (call'.ret = CB_ERROR_NOT_INITIALIZED /\ cb' = cb)
        /\ (~cb.is_initialized /\ call'.op = "observe")
            => /\ call'.count = 0 /\ call'.capacity = 0 /\ call'.free_space = 0
               /\ call'.is_empty /\ ~call'.is_full
               /\ cb' = cb
        /\ (~cb.is_initialized /\ call'.op = "region")
            => (call'.ptr = NULL /\ call'.readable_bytes = 0 /\ cb' = cb)
        /\ call'.op = "destroy"
            => /\ ~cb'.is_initialized
               /\ ~cb.is_initialized => cb' = cb ]_cbvars

\* a write of real data has been refused on an object that is not initialised
C32_Witness ==
    /\ ~cb.is_initialized
    /\ call.op = "write" /\ call.bytes > 0 /\ ~call.data.null
    /\ call.ret = CB_ERROR_NOT_INITIALIZED

\* C34: in every state of an initialised ring buffer the write cursor is the
\* read cursor advanced by the count modulo the capacity, the free space is
\* the capacity less the count, is_empty means count = 0 and is_full means
\* count = capacity, so the cursors coincide exactly when the buffer is
\* empty or full.
C34_CursorConsistency ==
    cb.is_initialized =>
        /\ cb.head = (cb.tail + cb.count) % cb.capacity
        /\ cb.head \in 0..(cb.capacity - 1) /\ cb.tail \in 0..(cb.capacity - 1)
        /\ circular_buffer_get_free_space(cb) = cb.capacity - cb.count
        /\ circular_buffer_is_empty(cb) = (cb.count = 0)
        /\ circular_buffer_is_full(cb) = (cb.count = cb.capacity)
        /\ (cb.head = cb.tail)
              = (circular_buffer_is_empty(cb) \/ circular_buffer_is_full(cb))

\* a full buffer whose cursors have wrapped and meet away from offset 0,
\* filled by a write
C34_Witness ==
    /\ cb.is_initialized /\ cb.capacity = MaxCap
    /\ cb.count = cb.capacity
    /\ cb.head = cb.tail /\ cb.tail > 0
    /\ call.op = "write" /\ call.ret = CB_SUCCESS /\ call.bytes > 0

\* ------------------------------------------------------------------------
\* Consumer (checked under FairSpecPipe)
\* ------------------------------------------------------------------------
\* chunks handed to i2s_channel_write so far
Written == pipe.popped - (IF pipe.writer = "write" THEN 1 ELSE 0)

\* C33: the writer is always either waiting in xQueueReceive or in
\* i2s_channel_write; each pop takes the oldest descriptor of the queue, so
\* the k-th pop gets the k-th chunk pushed; each pop is followed by one
\* write of that descriptor with the chunk size; and every chunk pushed is
\* eventually popped and written.
C33_ConsumerProgress ==
    /\ [](pipe.writer \in {"pop", "write"})
    /\ [](pipe.writer = "write" =>
            /\ pipe.cur.seq = pipe.popped - 1
            /\ pipe.audio_buf.size = AUDIO_BUFFER_SIZE)
    /\ [][ /\ pipe'.popped # pipe.popped
               => /\ pipe.writer = "pop" /\ pipe'.writer = "write"
                  /\ pipe'.popped = pipe.popped + 1
                  /\ pipe'.audio_buf = Head(queue) /\ queue' = Tail(queue)
           /\ (pipe.writer = "write" /\ pipe'.writer # "write")
               => /\ pipe'.writer = "pop"
                  /\ Len(pipe'.rendered) = AUDIO_BUFFER_SIZE
                  /\ pipe'.popped = pipe.popped ]_vars
    /\ \A k \in 0..((MaxPackets * PipeMaxPayload) \div AUDIO_BUFFER_SIZE) :
          (pipe.pushed > k) ~> (Written > k)
\* two chunks have been popped and written in turn, the second one while
\* further chunks were waiting behind it in the queue
C33_Witness ==
    /\ pipe.writer = "pop"
    /\ Written = 2
    /\ pipe.cur.seq = 1
    /\ Len(pipe.rendered) = AUDIO_BUFFER_SIZE
    /\ Len(queue) >= 2
\* ------------------------------------------------------------------------
\* Ring buffer occupancy in the pipeline (checked under SpecPipe)
\* ------------------------------------------------------------------------
\* C35: with one receive thread and a ring buffer of twice the maximum
\* payload, every callback finds fewer bytes than one chunk in the ring
\* buffer, the ring buffer never holds more than that plus one payload, no
\* circular_buffer_write of an accepted payload fails, and every payload
\* byte offered in the demo's format has been accepted.
C35_NoOverrun ==
    /\ pipe.entry_count < AUDIO_BUFFER_SIZE
    /\ CallbackReturned => cb.count < AUDIO_BUFFER_SIZE
    /\ cb.count <= (AUDIO_BUFFER_SIZE - 1) + PipeMaxPayload
    /\ cb.count <= cb.capacity
    /\ pipe.write_ret # CB_ERROR_BUFFER_FULL
    /\ pipe.write_ret = CB_SUCCESS
    /\ pipe.accepted = pipe.offered

\* a maximum payload has been written into a ring buffer that held the
\* largest possible remainder
C35_Witness ==
    /\ pipe.entry_count = AUDIO_BUFFER_SIZE - 1
    /\ pipe.len = PipeMaxPayload
    /\ pipe.write_ret = CB_SUCCESS
    /\ pipe.chunks = 0
    /\ cb.count = (AUDIO_BUFFER_SIZE - 1) + PipeMaxPayload
\* ------------------------------------------------------------------------
\* Threads of one instance (checked under SpecRx)
\* ------------------------------------------------------------------------
\* C36: as long as the instance has not been handed to vban_receiver_delete,
\* at most one receive thread is alive, so no two threads are inside the
\* receive loop (and with it the callback and the ring buffer) together.
C36_SingleThread ==
    (caller.fn # "delete" /\ ~freed) =>
        \A t, u \in Tasks :
            (task[t].pc \in AlivePcs /\ task[u].pc \in AlivePcs) => t = u
\* C37: vban_receiver_stop never answers ESP_ERR_VBAN_NOT_STARTED while a
\* receive thread created by a successful vban_receiver_start is alive.
C37_NoLostStop ==
    (api = [fn |-> "stop", ret |-> ESP_ERR_VBAN_NOT_STARTED] /\ ~freed) =>
        \A t \in Tasks : task[t].pc \notin AlivePcs
\* C38: once vban_receiver_stop has written state = STOPPING, and until the
\* next API call, the audio callback is invoked at most once, and not at
\* all once a receive thread has written the state back to Idle.
C38_BoundedDispatch ==
    /\ [](StopSignalled => pipe.callbacks <= 1)
    /\ [][ pipe'.callbacks > pipe.callbacks
              => rx.state # VBAN_RECEIVER_STATE_IDLE ]_vars
\* ------------------------------------------------------------------------
\* Sample-rate byte of sent headers (checked under SpecCodec)
\* ------------------------------------------------------------------------
\* C39: every header vban_audio_send hands to sendto carries, in the low
\* five bits of its sample-rate byte, the sample_rate_idx the sender was
\* configured with; a sender configured with VBAN_SR_MAX_INDEX (what
\* vban_get_index_from_sr answers for a rate it does not know) never sends
\* a header naming another, valid index.
C39_FaithfulSampleRate ==
    call.op = "vban_audio_send" =>
        \A i \in 1..Len(call.sent) :
            vban_util_parse_sr_subprotocol_byte(call.sent[i].sr_subprotocol).sr_idx
                = call.snd.sample_rate_idx

====
